---- MODULE Spec2Model ----
(***************************************************************************)
(* MCSHoster: the process supervisor (services.ServerProcess) with the     *)
(* console front end that drives it (main.ConsoleTab), and the Host Tools  *)
(* tab (main.HostToolsTab) with the backup functions of services.          *)
(*                                                                         *)
(* Spec         the supervisor, its reader threads, the child processes    *)
(*              and the console sink.                                      *)
(* SpecNextRun  get_next_run applied to bounded sets of instants and       *)
(*              target hours.                                              *)
(* SpecSched    the daily scheduler over several days: the check boxes and *)
(*              spin boxes, the timer's check_schedule, the clock.         *)
(* SpecBackup   backups and restores on the server directory within one    *)
(*              minute, second by second: the two buttons, the timer's     *)
(*              check_schedule, the server writing its world.              *)
(* SpecApp      the window: Start and Stop on the console tab, Apply on    *)
(*              the App settings tab, the timer's check_schedule.          *)
(* SpecTimer    the 60 s timer against the clock, second by second.        *)
(* SpecGui      the GUI thread: the slots of the Host Tools tab, their     *)
(*              message boxes, and the timer events dispatched meanwhile.  *)
(* SpecBoot     services.bootstrap_server and the child it runs.           *)
(* SpecData     the settings form and the operator list on                 *)
(*              server.properties and ops.json, with their .bak files.     *)
(* SpecUsers    the operator list and the whitelist on ops.json and        *)
(*              whitelist.json.                                            *)
(* SpecPlugins  the plugin helpers on plugins and plugins-disabled.        *)
(*                                                                         *)
(* Left out: the lines the supervisor writes to the log file (nothing      *)
(* reads them back), failures of the on_state callback and of              *)
(* Thread.start, and I/O failures while an archive is written.  A child    *)
(* keeps its stdout open for as long as it lives.                          *)
(***************************************************************************)
EXTENDS Integers, Sequences, FiniteSets, TLC

\* ------------------------------------------------------------------ bounds
\* Inputs one run takes: launches, lines the children write and commands the
\* caller issues, together.
MaxInputs == 5

Launches == 1..MaxInputs

\* ------------------------------------------------------------- vocabulary
\* Text is a sequence of tokens; " " and "\n" are the whitespace tokens.
Whitespace == {" ", "\n"}

\* The k-th line a child writes (without its newline): the lines differ from
\* one another, and every second one ends in blanks.
LineText(k) == IF k % 2 = 0 THEN <<"line", "b", " ">> ELSE <<"line", "a">>

\* What the user may have typed into the command input.
InputTexts == { <<" ", "list", " ">>, <<" ">> }

VARIABLES
    jar,         \* server_dir / SERVER_JAR_NAME exists
    timestamps,  \* ServerProcess.timestamps
    proc,        \* ServerProcess.proc: 0 is None, else the launch it refers to
    child,       \* the child processes, by launch
    reader,      \* the _reader threads, by launch: "none", "run", "done", "failed"
    sink,        \* what the ConsoleTab was handed, in delivery order
    ret,         \* the last call on the supervisor and how it ended
    ninp,        \* inputs taken so far
    now,         \* SpecNextRun: datetime.now() as read by update_next_runs
    hr,          \* SpecNextRun: the target hour handed to get_next_run
    nxt,         \* SpecNextRun: what get_next_run returned
    enable_restart,   \* HostToolsTab.enable_restart.isChecked()
    restart_hour,     \* HostToolsTab.restart_hour.value()
    enable_backup,    \* HostToolsTab.enable_backup.isChecked()
    backup_hour,      \* HostToolsTab.backup_hour.value()
    next_runs_label,  \* HostToolsTab.next_runs_label: the entries it lists
    backup_list,      \* HostToolsTab.backup_list: the names it shows
    fs,          \* the directories and files at and below the server directory
    backups,     \* the archives in server_dir/backups, by file name
    logfile,     \* the lines of mcs_hoster.log the Host Tools tab has written
    nops,        \* Host Tools operations taken so far
    nticks,      \* timer ticks so far that found something due
    gui,         \* the slots the GUI thread is inside of, outermost first
    since_tick,  \* SpecTimer: seconds since the timer last timed out
    boot,        \* SpecBoot: the call of bootstrap_server and its child
    saved,       \* SpecData: ops.json, whitelist.json, server.properties, their .bak
    props,       \* SpecData: SettingsTab.props, the dict the settings form edits
    plugins,     \* SpecPlugins: the jars in plugins and in plugins-disabled
    got          \* SpecData, SpecPlugins: the last helper call and what it returned

supVars == <<jar, timestamps, proc, child, reader, sink, ret, ninp>>
runVars == <<now, hr, nxt>>
cfgVars == <<enable_restart, restart_hour, enable_backup, backup_hour, next_runs_label>>
diskVars == <<backup_list, fs, backups, logfile, nops, nticks>>
dataVars == <<saved, props, plugins, got>>
appVars == <<gui, since_tick, boot, dataVars>>
hostVars == <<cfgVars, diskVars, appVars>>
vars == <<jar, timestamps, proc, child, reader, sink, ret, ninp, now, hr, nxt,
          enable_restart, restart_hour, enable_backup, backup_hour,
          next_runs_label, backup_list, fs, backups, logfile, nops, nticks,
          gui, since_tick, boot, saved, props, plugins, got>>

\* ------------------------------------------------------------ text helpers
\* str.rstrip(): trailing whitespace removed.
RECURSIVE rstrip(_)
rstrip(s) ==
    IF s = <<>> THEN s
    ELSE IF s[Len(s)] \in Whitespace THEN rstrip(SubSeq(s, 1, Len(s) - 1))
    ELSE s

\* Leading whitespace removed.
RECURSIVE lstrip(_)
lstrip(s) ==
    IF s = <<>> THEN s
    ELSE IF s[1] \in Whitespace THEN lstrip(SubSeq(s, 2, Len(s)))
    ELSE s

\* str.strip().
strip(s) == lstrip(rstrip(s))

\* --------------------------------------------------------------- the sink
\* ConsoleTab.on_state(s): the console gets "[state] s".  p is the launch
\* whose supervisor code made the call; the console itself sees no launch.
StateEvent(p, s) == [k |-> "state", p |-> p, v |-> <<s>>]

\* ConsoleTab.on_output(line).
OutputEvent(p, msg) == [k |-> "output", p |-> p, v |-> msg]

\* ConsoleTab.send_cmd's "> cmd" line.
EchoEvent(cmd) == [k |-> "echo", p |-> 0, v |-> <<">", " ">> \o cmd]

\* ------------------------------------------------------ ServerProcess.start
\* Mutant: the guard asks whether the reader thread is still running.
AlreadyRunning_thread == proc # 0 /\ reader[proc] = "run"

\* start's guard, `self.proc and self.proc.poll() is None`.
AlreadyRunning == proc # 0 /\ child[proc].st = "alive"

\* Mutant: the jar is not looked for.
JarMissing_unchecked == FALSE

\* `not jar.exists()`
JarMissing == ~jar

\* raise FileNotFoundError("server.jar not found")
ExecutableMissing == "FileNotFoundError: server.jar not found"

\* The exception subprocess.Popen raised, logged and raised again.
SpawnFailed == "Popen raised"

\* The launch a successful Popen creates: the first one not yet used.
NextLaunch == CHOOSE p \in Launches :
    child[p].st = "unborn" /\ \A q \in Launches : q < p => child[q].st # "unborn"

\* Popen succeeded: self.proc is the new child, on_state("running") is called
\* on the caller's thread, then the reader thread is created and started.  The
\* thread takes self.proc.stdout as its first statement; a later start()
\* replaces self.proc only once this child has exited, so the thread is taken
\* to be bound to this launch.
start_spawned(p) ==
    /\ proc' = p
    /\ child' = [child EXCEPT ![p].st = "alive"]
    /\ sink' = Append(sink, StateEvent(p, "running"))
    /\ reader' = [reader EXCEPT ![p] = "run"]
    /\ ret' = [op |-> "start", out |-> "started"]

\* Mutant: on_state("running") is called before Popen is tried.
start_failed_announced ==
    /\ ret' = [op |-> "start", out |-> SpawnFailed]
    /\ sink' = Append(sink, StateEvent(0, "running"))
    /\ UNCHANGED <<proc, child, reader>>

\* Popen raised: the except branch logs and raises again.
start_failed ==
    /\ ret' = [op |-> "start", out |-> SpawnFailed]
    /\ UNCHANGED <<proc, child, reader, sink>>

start ==
    /\ IF AlreadyRunning
         THEN /\ ret' = [op |-> "start", out |-> "return"]
              /\ UNCHANGED <<proc, child, reader, sink, ninp>>
         ELSE IF JarMissing
         THEN /\ ret' = [op |-> "start", out |-> ExecutableMissing]
              /\ UNCHANGED <<proc, child, reader, sink, ninp>>
         ELSE \/ /\ ninp < MaxInputs
                 /\ ninp' = ninp + 1
                 /\ start_spawned(NextLaunch)
              \/ start_failed /\ UNCHANGED ninp
    /\ UNCHANGED <<jar, timestamps, runVars, hostVars>>

\* ---------------------------------------------- ServerProcess.send_command
\* send_command's guard, `self.proc and self.proc.poll() is None`.
IsRunning == proc # 0 /\ child[proc].st = "alive"

\* Mutant: the command is written without its newline.
send_command_unterminated(cmd) ==
    /\ child' = IF IsRunning
                  THEN [child EXCEPT ![proc].stdin = @ \o cmd]
                  ELSE child
    /\ ret' = [op |-> "send_command", out |-> "None"]

\* The write and the flush of cmd + "\n" to a live child's stdin; nothing at
\* all when there is no live child.  The write raises only when the child
\* died after poll(): the except branch logs, nothing is delivered, and the
\* call ends like one made after the exit.  Every path returns None.
send_command(cmd) ==
    /\ child' = IF IsRunning
                  THEN [child EXCEPT ![proc].stdin = @ \o cmd \o <<"\n">>]
                  ELSE child
    /\ ret' = [op |-> "send_command", out |-> "None"]

\* ------------------------------------------------------ ServerProcess.stop
stop_text == <<"stop">>

\* Mutant: stop() terminates the child instead of asking it to stop.
stop_terminates ==
    /\ ninp < MaxInputs
    /\ ninp' = ninp + 1
    /\ child' = IF IsRunning THEN [child EXCEPT ![proc].st = "exited"] ELSE child
    /\ ret' = [op |-> "send_command", out |-> "None"]
    /\ UNCHANGED <<jar, timestamps, proc, reader, sink, runVars, hostVars>>

stop ==
    /\ ninp < MaxInputs
    /\ ninp' = ninp + 1
    /\ send_command(stop_text)
    /\ UNCHANGED <<jar, timestamps, proc, reader, sink, runVars, hostVars>>

\* ------------------------------------------------------ ConsoleTab.send_cmd
\* The typed text is stripped; an empty command returns at once; otherwise
\* send_command runs, the console gets "> cmd" and the input is cleared.
send_cmd(text) ==
    LET cmd == strip(text) IN
    IF cmd = <<>>
      THEN UNCHANGED vars
      ELSE /\ ninp < MaxInputs
           /\ ninp' = ninp + 1
           /\ send_command(cmd)
           /\ sink' = Append(sink, EchoEvent(cmd))
           /\ UNCHANGED <<jar, timestamps, proc, reader, runVars, hostVars>>

\* --------------------------------------------------- ServerProcess._reader
\* msg = line.rstrip(), with "[HH:MM:SS] " in front when timestamps is set.
reader_msg(line) ==
    IF timestamps THEN <<"[ts]", " ">> \o rstrip(line) ELSE rstrip(line)

\* The line the loop reads next: the oldest one not read yet.
reader_next(p) == child[p].wrote[child[p].nread + 1]

\* Mutant: the try is inside the loop, so after on_output raised and
\* "stopped" was published the loop goes on.
reader_line_resumes(p) ==
    /\ reader[p] = "run"
    /\ child[p].nread < Len(child[p].wrote)
    /\ child' = [child EXCEPT ![p].nread = @ + 1]
    /\ \/ sink' = Append(sink, OutputEvent(p, reader_msg(reader_next(p))))
       \/ sink' = Append(sink, StateEvent(p, "stopped"))
    /\ UNCHANGED <<jar, timestamps, proc, reader, ret, ninp, runVars, hostVars>>

\* One turn of `for line in self.proc.stdout`: the line is read and handed to
\* on_output.  When on_output raises, the except branch logs and the finally
\* branch ends the thread with on_state("stopped").
reader_line(p) ==
    /\ reader[p] = "run"
    /\ child[p].nread < Len(child[p].wrote)
    /\ child' = [child EXCEPT ![p].nread = @ + 1]
    /\ \/ /\ sink' = Append(sink, OutputEvent(p, reader_msg(reader_next(p))))
          /\ UNCHANGED reader
       \/ /\ sink' = Append(sink, StateEvent(p, "stopped"))
          /\ reader' = [reader EXCEPT ![p] = "failed"]
    /\ UNCHANGED <<jar, timestamps, proc, ret, ninp, runVars, hostVars>>

\* Mutant: the loop ends as soon as the child has exited.
reader_eof_on_exit(p) == child[p].st = "exited"

\* End of stream: every line written was read and the child, which keeps its
\* stdout open for as long as it lives, has exited.
reader_eof(p) == child[p].st = "exited" /\ child[p].nread = Len(child[p].wrote)

\* Mutant: the thread that saw its child end launches the next one.
reader_finally_restarts(p) ==
    /\ reader[p] = "run"
    /\ reader_eof(p)
    /\ IF p = proc /\ jar /\ ninp < MaxInputs
         THEN /\ proc' = NextLaunch
              /\ child' = [child EXCEPT ![NextLaunch].st = "alive"]
              /\ reader' = [reader EXCEPT ![p] = "done", ![NextLaunch] = "run"]
              /\ sink' = sink \o <<StateEvent(p, "stopped"), StateEvent(NextLaunch, "running")>>
              /\ ninp' = ninp + 1
         ELSE /\ sink' = Append(sink, StateEvent(p, "stopped"))
              /\ reader' = [reader EXCEPT ![p] = "done"]
              /\ UNCHANGED <<proc, child, ninp>>
    /\ UNCHANGED <<jar, timestamps, ret, runVars, hostVars>>

\* The finally branch after the loop: on_state("stopped"), the thread ends.
reader_finally(p) ==
    /\ reader[p] = "run"
    /\ reader_eof(p)
    /\ sink' = Append(sink, StateEvent(p, "stopped"))
    /\ reader' = [reader EXCEPT ![p] = "done"]
    /\ UNCHANGED <<jar, timestamps, proc, child, ret, ninp, runVars, hostVars>>

\* ----------------------------------------------------- the child processes
\* The child writes a line to its stdout.
child_writes(p) ==
    /\ child[p].st = "alive"
    /\ ninp < MaxInputs
    /\ ninp' = ninp + 1
    /\ child' = [child EXCEPT
                   ![p].wrote = Append(@, LineText(Len(@) + 1) \o <<"\n">>)]
    /\ UNCHANGED <<jar, timestamps, proc, reader, sink, ret, runVars, hostVars>>

\* The child exits, of its own accord or because it read "stop".
child_exits(p) ==
    /\ child[p].st = "alive"
    /\ child' = [child EXCEPT ![p].st = "exited"]
    /\ UNCHANGED <<jar, timestamps, proc, reader, sink, ret, ninp, runVars, hostVars>>

\* ------------------------------------------------------------ server.jar
\* download_server_jar / place_custom_server_jar write the jar.
place_server_jar ==
    /\ ~jar
    /\ jar' = TRUE
    /\ UNCHANGED <<timestamps, proc, child, reader, sink, ret, ninp, runVars, hostVars>>

\* ------------------------------------------------------- server directory
\* A path is the sequence of its names, a name a tuple of its parts.
ServerDir == << <<"MinecraftServer">> >>

Parent(p) == SubSeq(p, 1, Len(p) - 1)
Basename(p) == p[Len(p)]

\* q is p or lies below p.
IsPrefix(p, q) == Len(p) <= Len(q) /\ SubSeq(q, 1, Len(p)) = p

\* Path.relative_to
relative_to(q, base) == SubSeq(q, Len(base) + 1, Len(q))

\* Path.exists on the directories and files d.
Exists(d, p) == p \in d.dirs \/ p \in DOMAIN d.files

worlds_dir == ServerDir \o << <<"world">> >>

\* backup_dir, the path it returns.
backup_dir == ServerDir \o << <<"backups">> >>

NoFiles == [q \in {} |-> 0]

\* HostToolsTab.__init__: both boxes unchecked, both hours 0, the label
\* empty, the backup list as refresh_backups found it.
InitHostTools ==
    /\ enable_restart = FALSE
    /\ restart_hour = 0
    /\ enable_backup = FALSE
    /\ backup_hour = 0
    /\ next_runs_label = <<>>
    /\ backup_list = <<>>
    /\ fs = [dirs |-> {ServerDir, backup_dir}, files |-> NoFiles]
    /\ backups = NoFiles
    /\ logfile = <<>>
    /\ nops = 0
    /\ nticks = 0

\* ----------------------------------------------------------- the data files
\* A path in the server directory is its stem and its suffix.
with_suffix(p, s) == <<p[1], s>>

ops_path == <<"ops", ".json">>
wl_path == <<"whitelist", ".json">>
props_path == <<"server", ".properties">>

\* The files the helpers are called on, and the files they touch.
DataPaths == {ops_path, wl_path, props_path}
DataFiles == DataPaths \cup {with_suffix(p, ".bak") : p \in DataPaths}

\* A file that is not there, and a file holding text.
Absent == [there |-> FALSE, text |-> <<>>]
File(text) == [there |-> TRUE, text |-> text]

\* No helper was called.
NoHelper == [op |-> "none", path |-> <<>>, arg |-> <<>>, wrote |-> FALSE,
             written |-> <<>>, out |-> <<>>]

\* No jar in either directory.
NoJars == [n \in {} |-> ""]

\* A server directory the helpers have not been used on; SettingsTab.props
\* as load_props found it.
InitData ==
    /\ saved = [f \in DataFiles |-> Absent]
    /\ props = <<>>
    /\ plugins = [enabled |-> NoJars, disabled |-> NoJars, dirs |-> {}]
    /\ got = NoHelper

\* ------------------------------------------------------------------ Spec
\* No bootstrap_server call yet.
NoBoot == [pc |-> "idle", st |-> "none", term |-> FALSE, pipe |-> <<>>, out |-> <<>>,
           generated |-> FALSE, elapsed |-> 0, eula |-> FALSE, props |-> FALSE,
           by |-> "", ret |-> [ok |-> FALSE, out |-> <<>>]]

\* The GUI thread is in the event loop of QApplication.exec(), the timer was
\* just started, and bootstrap_server was not called.
InitIdle == gui = <<>> /\ since_tick = 0 /\ boot = NoBoot /\ InitData

NoChild == [st |-> "unborn", wrote |-> <<>>, nread |-> 0, stdin |-> <<>>]
NoCall == [op |-> "none", out |-> "none"]
NoInstant == [year |-> 0, month |-> 0, day |-> 0, hour |-> 0, minute |-> 0,
              second |-> 0, microsecond |-> 0]

\* ServerProcess.__init__, with ConsoleTab's callbacks set.
Init ==
    /\ jar \in BOOLEAN
    /\ timestamps \in BOOLEAN
    /\ proc = 0
    /\ child = [p \in Launches |-> NoChild]
    /\ reader = [p \in Launches |-> "none"]
    /\ sink = <<>>
    /\ ret = NoCall
    /\ ninp = 0
    /\ now = NoInstant
    /\ hr = 0
    /\ nxt = NoInstant
    /\ InitHostTools
    /\ InitIdle

Next ==
    \/ start
    \/ stop
    \/ \E text \in InputTexts : send_cmd(text)
    \/ \E p \in Launches : reader_line(p)
    \/ \E p \in Launches : reader_finally(p)
    \/ \E p \in Launches : child_writes(p)
    \/ \E p \in Launches : child_exits(p)
    \/ place_server_jar

Spec == Init /\ [][Next]_vars

\* ------------------------------------------- HostToolsTab.update_next_runs
\* QSpinBox.setRange(0, 23)
MaxHour == 23

\* The calendar behind datetime + timedelta(days=1).
IsLeap(y) == (y % 4 = 0 /\ y % 100 # 0) \/ y % 400 = 0

DaysInMonth(y, m) ==
    IF m = 2 THEN (IF IsLeap(y) THEN 29 ELSE 28)
    ELSE IF m \in {4, 6, 9, 11} THEN 30 ELSE 31

\* Mutant: now.replace(day=now.day + 1).
AddDay_same_month(t) == [t EXCEPT !.day = @ + 1]

\* t + timedelta(days=1)
AddDay(t) ==
    IF t.day < DaysInMonth(t.year, t.month) THEN [t EXCEPT !.day = @ + 1]
    ELSE IF t.month < 12 THEN [t EXCEPT !.month = @ + 1, !.day = 1]
    ELSE [t EXCEPT !.year = @ + 1, !.month = 1, !.day = 1]

\* datetime order, a <= b, field by field.
InstantKey(t) == <<t.year, t.month, t.day, t.hour, t.minute, t.second, t.microsecond>>

RECURSIVE KeyLessEq(_, _)
KeyLessEq(a, b) ==
    IF a = <<>> THEN TRUE
    ELSE IF a[1] # b[1] THEN a[1] < b[1]
    ELSE KeyLessEq(Tail(a), Tail(b))

InstantLessEq(a, b) == KeyLessEq(InstantKey(a), InstantKey(b))

\* now.replace(hour=hr, minute=0, second=0, microsecond=0)
ReplaceTime(t, h) == [t EXCEPT !.hour = h, !.minute = 0, !.second = 0, !.microsecond = 0]

\* Mutant: `if nxt < now`.
get_next_run_strict(t, h) ==
    IF InstantLessEq(ReplaceTime(t, h), t) /\ ReplaceTime(t, h) # t
      THEN AddDay(ReplaceTime(t, h))
      ELSE ReplaceTime(t, h)

\* get_next_run(hr), with now = t.
get_next_run(t, h) ==
    IF InstantLessEq(ReplaceTime(t, h), t)
      THEN AddDay(ReplaceTime(t, h))
      ELSE ReplaceTime(t, h)

\* The instants datetime.now() is drawn from: days at and around the ends of
\* months and years, every hour, the first and last minute, second and
\* microsecond steps next to the full minute.
Dates == { <<2023, 2, 28>>, <<2023, 12, 31>>, <<2024, 1, 1>>, <<2024, 2, 28>>,
           <<2024, 2, 29>>, <<2024, 4, 30>>, <<2024, 6, 15>> }

Instants ==
    { [year |-> d[1], month |-> d[2], day |-> d[3], hour |-> h, minute |-> mi,
       second |-> sec, microsecond |-> us] :
          d \in Dates, h \in 0..MaxHour, mi \in {0, 59}, sec \in {0, 59}, us \in {0, 1} }

\* update_next_runs reads the clock and the hour and calls get_next_run.
call_get_next_run ==
    /\ nxt = NoInstant
    /\ nxt' = get_next_run(now, hr)
    /\ UNCHANGED <<supVars, now, hr, hostVars>>

InitNextRun ==
    /\ jar = FALSE
    /\ timestamps = FALSE
    /\ proc = 0
    /\ child = [p \in Launches |-> NoChild]
    /\ reader = [p \in Launches |-> "none"]
    /\ sink = <<>>
    /\ ret = NoCall
    /\ ninp = 0
    /\ now \in Instants
    /\ hr \in 0..MaxHour
    /\ nxt = NoInstant
    /\ InitHostTools
    /\ InitIdle

NextNextRun == call_get_next_run

SpecNextRun == InitNextRun /\ [][NextNextRun]_vars

\* ------------------------------------------------------------ HostToolsTab
\* Operations of the Host Tools tab one run takes: timer ticks that find
\* something due, button clicks, writes of the server to its world and
\* removals of an archive, together.
MaxOps == 4

\* The timer ticks among them.
MaxTicks == 2

\* strftime("%Y%m%d_%H%M%S"), and the "%Y-%m-%d %H:%M:%S" of the log: the
\* fields of t down to the second.
Stamp(t) == <<t.year, t.month, t.day, t.hour, t.minute, t.second>>

\* strftime('%Y-%m-%d %H:%M')
MinuteStamp(t) == <<t.year, t.month, t.day, t.hour, t.minute>>

\* services.log: one line, the time and the message; it never raises.
LogLine(text, arg) == [ts |-> Stamp(now), text |-> text, arg |-> arg]

\* f"world_{ts}.zip"
zip_name(t) == <<"world_", Stamp(t), ".zip">>

\* target_parent / f"world_old_{ts}"
old_world(t) == ServerDir \o << <<"world_old_", Stamp(t)>> >>

\* ------------------------------------------------------- make_world_backup
\* FileNotFoundError("World folder not found (e.g., 'world')")
WorldMissing == "World folder not found (e.g., 'world')"

\* Mutant: the members are named relative to wf itself.
ZipEntries_inside(d, wf) ==
    LET below == {q \in DOMAIN d.files : IsPrefix(wf, q)}
    IN [r \in {relative_to(q, wf) : q \in below} |-> d.files[wf \o r]]

\* The archive the os.walk loop writes: every file below wf, and no
\* directory, under its path relative to wf.parent.
ZipEntries(d, wf) ==
    LET below == {q \in DOMAIN d.files : IsPrefix(wf, q)}
    IN [r \in {relative_to(q, Parent(wf)) : q \in below} |-> d.files[Parent(wf) \o r]]

\* zipfile.ZipFile(zip_path, "w"): the file is created, or emptied when it
\* is there, and written.
write_zip(b, name, z) ==
    [n \in DOMAIN b \cup {name} |-> IF n = name THEN z ELSE b[n]]

\* `not wf.exists()`
make_world_backup_raises == ~Exists(fs, worlds_dir)

\* Mutant: the archive is opened before the world is looked for.
make_world_backup_zip_first ==
    /\ fs' = [fs EXCEPT !.dirs = @ \cup {backup_dir}]
    /\ backups' = write_zip(backups, zip_name(now), ZipEntries(fs, worlds_dir))

\* make_world_backup(server_dir) on the disk.
make_world_backup ==
    IF make_world_backup_raises
      THEN UNCHANGED <<fs, backups>>
      ELSE /\ fs' = [fs EXCEPT !.dirs = @ \cup {backup_dir}]
           /\ backups' = write_zip(backups, zip_name(now), ZipEntries(fs, worlds_dir))

\* The log after make_world_backup, lg before it.
make_world_backup_log(lg) ==
    IF make_world_backup_raises
      THEN lg
      ELSE Append(lg, LogLine("World backup created: ", zip_name(now)))

\* Mutant: the names come newest first.
RECURSIVE sorted_descending(_)
sorted_descending(S) ==
    IF S = {} THEN <<>>
    ELSE LET m == CHOOSE x \in S : \A y \in S : KeyLessEq(y[2], x[2])
         IN <<m>> \o sorted_descending(S \ {m})

\* sorted(backup_dir.glob("*.zip")): the file names differ in their stamps
\* only, whose fields have fixed widths.
RECURSIVE sorted(_)
sorted(S) ==
    IF S = {} THEN <<>>
    ELSE LET m == CHOOSE x \in S : \A y \in S : KeyLessEq(x[2], y[2])
         IN <<m>> \o sorted(S \ {m})

\* list_backups, as refresh_backups shows it.
list_backups(b) == sorted(DOMAIN b)

\* ---------------------------------------------------------- restore_backup
\* FileNotFoundError("Backup zip not found")
ArchiveMissing == "Backup zip not found"

\* shutil.Error("Destination path '...' already exists")
DestinationExists == "Destination path already exists"

\* The OSError that ends an extraction part of the way.
ExtractFailed == "OSError"

\* shutil.move: into dst when dst is a directory, else to dst.
real_dst(d, src, dst) == IF dst \in d.dirs THEN dst \o <<Basename(src)>> ELSE dst

\* shutil.move raises when the place inside dst is taken.
move_raises(d, src, dst) == dst \in d.dirs /\ Exists(d, real_dst(d, src, dst))

\* os.rename(src, to): src and all below it, under the new name.
rename(d, src, to) ==
    LET mv(q) == IF IsPrefix(src, q) THEN to \o relative_to(q, src) ELSE q
    IN [dirs |-> {mv(q) : q \in d.dirs},
        files |-> [q \in {mv(o) : o \in DOMAIN d.files} |->
                       d.files[CHOOSE o \in DOMAIN d.files : mv(o) = q]]]

\* Mutant: what is at the destination is removed first.
shutil_move_replacing(d, src, dst) ==
    rename([dirs |-> {q \in d.dirs : ~IsPrefix(dst, q)},
            files |-> [q \in {o \in DOMAIN d.files : ~IsPrefix(dst, o)} |-> d.files[q]]],
           src, dst)

\* shutil.move(src, dst) when it does not raise.
shutil_move(d, src, dst) == rename(d, src, real_dst(d, src, dst))

\* ZipFile.extractall(target), for the members names of z: each is written
\* below target under its name, the directories on its way made as needed.
extract(d, target, z, names) ==
    [dirs |-> d.dirs \cup UNION {{SubSeq(target \o r, 1, k) :
                                      k \in (Len(target) + 1)..(Len(target) + Len(r) - 1)} :
                                   r \in names},
     files |-> [q \in DOMAIN d.files \cup {target \o r : r \in names} |->
                    IF \E r \in names : target \o r = q
                      THEN z[relative_to(q, target)]
                      ELSE d.files[q]]]

\* services.restore_backup(server_dir, backup_dir / item) under the handler
\* HostToolsTab.restore_backup, for the item selected in the list and the
\* question answered Yes.  Every exception ends in the handler's except
\* branch, which logs it.
\* Mutant: the world is moved aside before the archive is looked for.
restore_fails_world_moved(d, out) ==
    /\ fs' = IF Exists(d, worlds_dir) /\ ~move_raises(d, worlds_dir, old_world(now))
               THEN shutil_move(d, worlds_dir, old_world(now))
               ELSE d
    /\ logfile' = Append(logfile, LogLine("Restore failed: ", <<out>>))
    /\ ret' = [op |-> "restore_backup", out |-> out]

restore_fails(d, out) ==
    /\ fs' = d
    /\ logfile' = Append(logfile, LogLine("Restore failed: ", <<out>>))
    /\ ret' = [op |-> "restore_backup", out |-> out]

\* svc.restore_backup raised e with the disk at d, and the except branch has
\* not run yet.
restore_raised(d, e) ==
    /\ fs' = d
    /\ ret' = [op |-> "restore_backup", out |-> e]
    /\ UNCHANGED logfile

\* e was raised with the disk at d; the step goes on through the except
\* branch or ends at the raise.
raised(d, e, through) == IF through THEN restore_fails(d, e) ELSE restore_raised(d, e)

\* services.restore_backup(server_dir, backup_dir / item).
svc_restore_backup(item, through) ==
    /\ IF item \notin DOMAIN backups
         THEN raised(fs, ArchiveMissing, through)
         ELSE IF Exists(fs, worlds_dir) /\ move_raises(fs, worlds_dir, old_world(now))
         THEN raised(fs, DestinationExists, through)
         ELSE LET moved == IF Exists(fs, worlds_dir)
                             THEN shutil_move(fs, worlds_dir, old_world(now))
                             ELSE fs
                  z == backups[item]
              IN \/ /\ fs' = extract(moved, Parent(worlds_dir), z, DOMAIN z)
                    /\ logfile' = Append(logfile, LogLine("World restored from: ", item))
                    /\ ret' = [op |-> "restore_backup", out |-> "Restored"]
                 \/ \E part \in SUBSET DOMAIN z :
                        /\ part # DOMAIN z
                        /\ raised(extract(moved, Parent(worlds_dir), z, part),
                                  ExtractFailed, through)

restore_backup(item) ==
    /\ nops < MaxOps
    /\ nops' = nops + 1
    /\ svc_restore_backup(item, TRUE)
    /\ UNCHANGED <<jar, timestamps, proc, child, reader, sink, ninp, runVars,
                   cfgVars, backup_list, backups, nticks, appVars>>

\* HostToolsTab.make_backup.
make_backup ==
    /\ nops < MaxOps
    /\ nops' = nops + 1
    /\ make_world_backup
    /\ IF make_world_backup_raises
         THEN /\ logfile' = Append(logfile, LogLine("Backup failed: ", <<WorldMissing>>))
              /\ ret' = [op |-> "make_backup", out |-> WorldMissing]
              /\ UNCHANGED backup_list
         ELSE /\ logfile' = make_world_backup_log(logfile)
              /\ ret' = [op |-> "make_backup", out |-> "Created"]
              /\ backup_list' = list_backups(backups')
    /\ UNCHANGED <<jar, timestamps, proc, child, reader, sink, ninp, runVars, cfgVars,
                   nticks, appVars>>

\* ------------------------------------------------------------ the schedule
\* The entries update_next_runs puts on the label, for the settings given.
next_runs(er, rh, eb, bh) ==
    (IF er THEN << [what |-> "restart at ", at |-> MinuteStamp(get_next_run(now, rh))] >>
           ELSE <<>>)
    \o (IF eb THEN << [what |-> "backup at ", at |-> MinuteStamp(get_next_run(now, bh))] >>
              ELSE <<>>)

\* HostToolsTab.update_next_runs, the slot of the four signals.
update_next_runs ==
    next_runs_label' = next_runs(enable_restart', restart_hour', enable_backup', backup_hour')

\* The hours the user sets the spin boxes to.
SchedHours == {0, MaxHour}

\* Mutant: checking the box during the minute of the restart hour announces
\* the restart at once.
toggle_enable_restart_firing ==
    /\ enable_restart' = ~enable_restart
    /\ UNCHANGED <<restart_hour, enable_backup, backup_hour>>
    /\ update_next_runs
    /\ logfile' = IF enable_restart' /\ now.minute = 0 /\ now.hour = restart_hour
                    THEN Append(logfile, LogLine("Scheduled restart time reached", <<>>))
                    ELSE logfile
    /\ UNCHANGED <<supVars, runVars, backup_list, fs, backups, nops, nticks, appVars>>

\* The user checks or unchecks "Daily restart".
toggle_enable_restart ==
    /\ enable_restart' = ~enable_restart
    /\ UNCHANGED <<restart_hour, enable_backup, backup_hour>>
    /\ update_next_runs
    /\ UNCHANGED <<supVars, runVars, diskVars, appVars>>

\* The user checks or unchecks "Daily backup".
toggle_enable_backup ==
    /\ enable_backup' = ~enable_backup
    /\ UNCHANGED <<enable_restart, restart_hour, backup_hour>>
    /\ update_next_runs
    /\ UNCHANGED <<supVars, runVars, diskVars, appVars>>

\* The user changes the restart hour.
set_restart_hour(h) ==
    /\ h # restart_hour
    /\ restart_hour' = h
    /\ UNCHANGED <<enable_restart, enable_backup, backup_hour>>
    /\ update_next_runs
    /\ UNCHANGED <<supVars, runVars, diskVars, appVars>>

\* The user changes the backup hour.
set_backup_hour(h) ==
    /\ h # backup_hour
    /\ backup_hour' = h
    /\ UNCHANGED <<enable_restart, restart_hour, enable_backup>>
    /\ update_next_runs
    /\ UNCHANGED <<supVars, runVars, diskVars, appVars>>

\* check_schedule's two conditions.
backup_due == enable_backup /\ now.minute = 0 /\ now.hour = backup_hour
restart_due == enable_restart /\ now.minute = 0 /\ now.hour = restart_hour

RestartReached == "Scheduled restart time reached (send 'stop' in Console)."

\* Mutant: the backup's exception leaves check_schedule.
check_schedule_raising ==
    /\ nticks < MaxTicks /\ nops < MaxOps
    /\ nticks' = IF backup_due \/ restart_due THEN nticks + 1 ELSE nticks
    /\ nops' = IF backup_due \/ restart_due THEN nops + 1 ELSE nops
    /\ IF backup_due THEN make_world_backup ELSE UNCHANGED <<fs, backups>>
    /\ IF backup_due /\ make_world_backup_raises
         THEN /\ logfile' = logfile
              /\ ret' = [op |-> "check_schedule", out |-> WorldMissing]
         ELSE /\ logfile' = LET l1 == IF backup_due THEN make_world_backup_log(logfile)
                                                   ELSE logfile
                            IN IF restart_due
                                 THEN Append(l1, LogLine(RestartReached, <<>>))
                                 ELSE l1
              /\ ret' = [op |-> "check_schedule", out |-> "return"]
    /\ UNCHANGED <<jar, timestamps, proc, child, reader, sink, ninp, runVars,
                   cfgVars, backup_list, appVars>>

\* HostToolsTab.check_schedule, the slot of the 60 s timer: what it does to
\* the disk and the log.
check_schedule_slot ==
    /\ nticks < MaxTicks /\ nops < MaxOps
    /\ nticks' = IF backup_due \/ restart_due THEN nticks + 1 ELSE nticks
    /\ nops' = IF backup_due \/ restart_due THEN nops + 1 ELSE nops
    /\ IF backup_due THEN make_world_backup ELSE UNCHANGED <<fs, backups>>
    /\ logfile' =
          LET l1 == IF ~backup_due THEN logfile
                    ELSE IF make_world_backup_raises
                    THEN Append(logfile, LogLine("Scheduled backup failed: ", <<WorldMissing>>))
                    ELSE make_world_backup_log(logfile)
          IN IF restart_due THEN Append(l1, LogLine(RestartReached, <<>>)) ELSE l1
    /\ ret' = [op |-> "check_schedule", out |-> "return"]
    /\ UNCHANGED <<jar, timestamps, proc, child, reader, sink, ninp, runVars,
                   cfgVars, backup_list>>

\* The timer times out with the GUI thread idle, and check_schedule runs
\* from its first statement to its last.
check_schedule ==
    /\ check_schedule_slot
    /\ UNCHANGED appVars

\* ---------------------------------------------------------------- the rest
\* The files the server keeps in its world, and what they may hold.
WorldFiles == { << <<"level.dat">> >>, << <<"region">>, <<"r.0.0.mca">> >> }
Contents == {"v1", "v2"}

\* The server (or the user) writes the file f of the world.
world_written(f, c) ==
    /\ nops < MaxOps
    /\ nops' = nops + 1
    /\ ~(worlds_dir \o f \in DOMAIN fs.files /\ fs.files[worlds_dir \o f] = c)
    /\ fs' = LET d == [fs EXCEPT !.dirs = @ \cup {worlds_dir}]
             IN extract(d, worlds_dir, [r \in {f} |-> c], {f})
    /\ UNCHANGED <<supVars, runVars, cfgVars, backup_list, backups, logfile, nticks, appVars>>

\* HostToolsTab.refresh_backups, as MainWindow.on_tab_changed calls it when
\* the tab is brought to the front.
refresh_backups ==
    /\ backup_list' = list_backups(backups)
    /\ fs' = [fs EXCEPT !.dirs = @ \cup {backup_dir}]
    /\ UNCHANGED <<supVars, runVars, cfgVars, backups, logfile, nops, nticks, appVars>>

\* The user removes an archive from the backups folder.
backup_deleted(n) ==
    /\ nops < MaxOps
    /\ nops' = nops + 1
    /\ n \in DOMAIN backups
    /\ backups' = [m \in DOMAIN backups \ {n} |-> backups[m]]
    /\ UNCHANGED <<supVars, runVars, cfgVars, backup_list, fs, logfile, nticks, appVars>>

\* ---------------------------------------------------------------- SpecSched
\* The days after the first the clock of SpecSched runs through.
MaxDays == 1

\* Time passes.  check_schedule does nothing outside minute 0 of the hours
\* the spin boxes are set to, so the clock stops here only next to those
\* minutes: 30 s before each, at its start, and 30 s into it.
clock_jump ==
    /\ now' =
         IF now.minute = 59
           THEN IF now.hour = MaxHour
                  THEN AddDay([now EXCEPT !.hour = 0, !.minute = 0, !.second = 0])
                  ELSE [now EXCEPT !.hour = @ + 1, !.minute = 0, !.second = 0]
         ELSE IF now.second = 0
           THEN [now EXCEPT !.second = 30]
         ELSE LET before == {(h + MaxHour) % (MaxHour + 1) : h \in SchedHours}
                  c == CHOOSE x \in before :
                           x >= now.hour /\ \A y \in before : y >= now.hour => x <= y
              IN [now EXCEPT !.hour = c, !.minute = 59, !.second = 30]
    /\ now'.year = 2023 \/ now'.day <= MaxDays
    /\ UNCHANGED <<supVars, hr, nxt, hostVars>>

\* A world as the server first writes it.
FirstWorld == [dirs |-> {ServerDir, backup_dir, worlds_dir},
               files |-> [q \in {worlds_dir \o << <<"level.dat">> >>} |-> "v1"]]

\* The tab some time after its construction, on 31 December 2023 at
\* 23:59:30: the server runs, and its world is there or not.
InitSched ==
    /\ jar = TRUE
    /\ timestamps = FALSE
    /\ proc = 1
    /\ child = [p \in Launches |-> IF p = 1 THEN [NoChild EXCEPT !.st = "alive"] ELSE NoChild]
    /\ reader = [p \in Launches |-> IF p = 1 THEN "run" ELSE "none"]
    /\ sink = <<StateEvent(1, "running")>>
    /\ ret = [op |-> "start", out |-> "started"]
    /\ ninp = 1
    /\ now = [year |-> 2023, month |-> 12, day |-> 31, hour |-> 23, minute |-> 59,
              second |-> 30, microsecond |-> 0]
    /\ hr = 0
    /\ nxt = NoInstant
    /\ enable_restart = FALSE
    /\ restart_hour = 0
    /\ enable_backup = FALSE
    /\ backup_hour = 0
    /\ next_runs_label = <<>>
    /\ backup_list = <<>>
    /\ fs \in {[dirs |-> {ServerDir, backup_dir}, files |-> NoFiles], FirstWorld}
    /\ backups = NoFiles
    /\ logfile = <<>>
    /\ nops = 0
    /\ nticks = 0
    /\ InitIdle

NextSched ==
    \/ check_schedule
    \/ toggle_enable_restart
    \/ toggle_enable_backup
    \/ \E h \in SchedHours : set_restart_hour(h)
    \/ \E h \in SchedHours : set_backup_hour(h)
    \/ clock_jump

SpecSched == InitSched /\ [][NextSched]_vars

\* --------------------------------------------------------------- SpecBackup
\* The seconds after the first the clock of SpecBackup runs through.
MaxSeconds == 2

\* One second passes.
clock_second ==
    /\ now.second < MaxSeconds
    /\ now' = [now EXCEPT !.second = @ + 1]
    /\ UNCHANGED <<supVars, hr, nxt, hostVars>>

\* The tab on 1 January 2024 at 00:00:00, no server running: the daily
\* backup at hour 0 is checked or not, the world is there or not.
InitBackup ==
    /\ jar = TRUE
    /\ timestamps = FALSE
    /\ proc = 0
    /\ child = [p \in Launches |-> NoChild]
    /\ reader = [p \in Launches |-> "none"]
    /\ sink = <<>>
    /\ ret = NoCall
    /\ ninp = 0
    /\ now = [year |-> 2024, month |-> 1, day |-> 1, hour |-> 0, minute |-> 0,
              second |-> 0, microsecond |-> 0]
    /\ hr = 0
    /\ nxt = NoInstant
    /\ enable_restart = FALSE
    /\ restart_hour = 0
    /\ enable_backup \in BOOLEAN
    /\ backup_hour = 0
    /\ next_runs_label = IF enable_backup
                           THEN << [what |-> "backup at ", at |-> <<2024, 1, 1, 0, 0>>] >>
                           ELSE <<>>
    /\ backup_list = <<>>
    /\ fs \in {[dirs |-> {ServerDir, backup_dir}, files |-> NoFiles], FirstWorld}
    /\ backups = NoFiles
    /\ logfile = <<>>
    /\ nops = 0
    /\ nticks = 0
    /\ InitIdle

NextBackup ==
    \/ make_backup
    \/ \E i \in 1..Len(backup_list) : restore_backup(backup_list[i])
    \/ check_schedule
    \/ \E f \in WorldFiles : \E c \in Contents : world_written(f, c)
    \/ \E n \in DOMAIN backups : backup_deleted(n)
    \/ refresh_backups
    \/ clock_second

SpecBackup == InitBackup /\ [][NextBackup]_vars

\* ------------------------------------------------------------------ SpecApp
\* MainWindow.apply_app_settings, called by AppSettingsTab.on_apply: the font
\* is set and reinitialize_tabs gives the console tab a new ServerProcess,
\* with no child, the console's callbacks, and the timestamps setting the
\* check box already gave the old one.  The old object is dropped as it is:
\* its child and its reader thread go on.
apply_app_settings ==
    /\ proc' = 0
    /\ UNCHANGED <<jar, timestamps, child, reader, sink, ret, ninp, runVars, hostVars>>

\* The window on 1 January 2024 at 00:00:00, "Daily restart" having been
\* checked the day before with hour 0; server.jar is in place and the world
\* is not there yet.
InitApp ==
    /\ jar = TRUE
    /\ timestamps = FALSE
    /\ proc = 0
    /\ child = [p \in Launches |-> NoChild]
    /\ reader = [p \in Launches |-> "none"]
    /\ sink = <<>>
    /\ ret = NoCall
    /\ ninp = 0
    /\ now = [year |-> 2024, month |-> 1, day |-> 1, hour |-> 0, minute |-> 0,
              second |-> 0, microsecond |-> 0]
    /\ hr = 0
    /\ nxt = NoInstant
    /\ enable_restart = TRUE
    /\ restart_hour = 0
    /\ enable_backup = FALSE
    /\ backup_hour = 0
    /\ next_runs_label = << [what |-> "restart at ", at |-> <<2024, 1, 1, 0, 0>>] >>
    /\ backup_list = <<>>
    /\ fs = [dirs |-> {ServerDir, backup_dir}, files |-> NoFiles]
    /\ backups = NoFiles
    /\ logfile = <<>>
    /\ nops = 0
    /\ nticks = 0
    /\ InitIdle

NextApp ==
    \/ start
    \/ stop
    \/ \E p \in Launches : reader_finally(p)
    \/ \E p \in Launches : child_exits(p)
    \/ apply_app_settings
    \/ check_schedule

SpecApp == InitApp /\ [][NextApp]_vars

\* ---------------------------------------------------------------- SpecTimer
\* self.timer.start(60 * 1000): the timer's interval, in seconds.
TimerInterval == 60

\* The minutes of the new day the clock of SpecTimer runs through.
MaxMinutes == 2

\* The instant one second after t.
AddSecond(t) ==
    IF t.second < 59 THEN [t EXCEPT !.second = @ + 1]
    ELSE IF t.minute < 59 THEN [t EXCEPT !.minute = @ + 1, !.second = 0]
    ELSE IF t.hour < MaxHour THEN [t EXCEPT !.hour = @ + 1, !.minute = 0, !.second = 0]
    ELSE AddDay([t EXCEPT !.hour = 0, !.minute = 0, !.second = 0])

\* One second passes, on the clock and for the timer.
second_passes ==
    /\ now.year = 2023 \/ now.minute < MaxMinutes
    /\ now' = AddSecond(now)
    /\ since_tick' = since_tick + 1
    /\ UNCHANGED <<supVars, hr, nxt, cfgVars, diskVars, gui, boot, dataVars>>

\* The timer times out: not before its interval has passed since it last
\* did, and later when the GUI thread or the system were busy; Qt makes up
\* for no timeout that came late.  check_schedule runs.
timer_timeout ==
    /\ since_tick >= TimerInterval
    /\ since_tick' = 0
    /\ check_schedule_slot
    /\ UNCHANGED <<gui, boot, dataVars>>

\* The tab on 31 December 2023 at 23:59:59, the timer having timed out just
\* now; "Daily restart" is checked with hour 0, "Daily backup" is or is not,
\* and the world is there.
InitTimer ==
    /\ jar = TRUE
    /\ timestamps = FALSE
    /\ proc = 0
    /\ child = [p \in Launches |-> NoChild]
    /\ reader = [p \in Launches |-> "none"]
    /\ sink = <<>>
    /\ ret = [op |-> "check_schedule", out |-> "return"]
    /\ ninp = 0
    /\ now = [year |-> 2023, month |-> 12, day |-> 31, hour |-> 23, minute |-> 59,
              second |-> 59, microsecond |-> 0]
    /\ hr = 0
    /\ nxt = NoInstant
    /\ enable_restart = TRUE
    /\ restart_hour = 0
    /\ enable_backup \in BOOLEAN
    /\ backup_hour = 0
    /\ next_runs_label =
          << [what |-> "restart at ", at |-> <<2024, 1, 1, 0, 0>>] >>
          \o (IF enable_backup
                THEN << [what |-> "backup at ", at |-> <<2024, 1, 1, 0, 0>>] >>
                ELSE <<>>)
    /\ backup_list = <<>>
    /\ fs = FirstWorld
    /\ backups = NoFiles
    /\ logfile = <<>>
    /\ nops = 0
    /\ nticks = 0
    /\ InitIdle

NextTimer ==
    \/ second_passes
    \/ timer_timeout

SpecTimer == InitTimer /\ [][NextTimer]_vars

\* ------------------------------------------------------------------ SpecGui
\* The GUI thread runs one slot at a time.  A slot that opens a message box
\* waits in the box's own event loop, which dispatches timer events but,
\* the box being modal, no click on the tab; a slot inside a services
\* function dispatches nothing.
Frame(h, pc, item) == [h |-> h, pc |-> pc, item |-> item, err |-> ""]

\* The slot the GUI thread is in.
Top == gui[Len(gui)]

\* The thread is in QApplication.exec() and in no slot.
Idle == gui = <<>>

\* Mutant: the timer's slot is called whatever the GUI thread is doing.
InEventLoop_any == TRUE

\* The thread is in an event loop: the application's or a message box's.
InEventLoop == IF gui = <<>> THEN TRUE ELSE Top.pc \in {"question", "dialog"}

\* The slot at the top moves on to pc, having met the error err.
Proceed(pc, err) == [gui EXCEPT ![Len(gui)] = [@ EXCEPT !.pc = pc, !.err = err]]

\* The slot at the top returns.
Return == SubSeq(gui, 1, Len(gui) - 1)

\* "Backup now" is clicked: make_backup calls svc.make_world_backup.
make_backup_clicked ==
    /\ Idle
    /\ nops < MaxOps
    /\ nops' = nops + 1
    /\ gui' = <<Frame("make_backup", "io", <<>>)>>
    /\ UNCHANGED <<supVars, runVars, cfgVars, backup_list, fs, backups, logfile, nticks,
                   since_tick, boot, dataVars>>

\* svc.make_world_backup returns or raises, and make_backup opens the
\* information box or, in the except branch, the critical box.
make_backup_io ==
    /\ gui # <<>> /\ Top.h = "make_backup" /\ Top.pc = "io"
    /\ make_world_backup
    /\ logfile' = make_world_backup_log(logfile)
    /\ ret' = [op |-> "make_backup",
               out |-> IF make_world_backup_raises THEN WorldMissing ELSE "Created"]
    /\ gui' = Proceed("dialog", IF make_world_backup_raises THEN WorldMissing ELSE "")
    /\ UNCHANGED <<jar, timestamps, proc, child, reader, sink, ninp, runVars, cfgVars,
                   backup_list, nops, nticks, since_tick, boot, dataVars>>

\* The box is closed: refresh_backups after the information box, the log
\* line "Backup failed: ..." after the critical box; make_backup returns.
make_backup_closed ==
    /\ gui # <<>> /\ Top.h = "make_backup" /\ Top.pc = "dialog"
    /\ IF Top.err # ""
         THEN /\ logfile' = Append(logfile, LogLine("Backup failed: ", <<Top.err>>))
              /\ UNCHANGED <<backup_list, fs>>
         ELSE /\ backup_list' = list_backups(backups)
              /\ fs' = [fs EXCEPT !.dirs = @ \cup {backup_dir}]
              /\ UNCHANGED logfile
    /\ gui' = Return
    /\ UNCHANGED <<supVars, runVars, cfgVars, backups, nops, nticks, since_tick, boot, dataVars>>

\* "Restore selected" is clicked with item selected: restore_backup opens
\* the question box.
restore_backup_clicked(item) ==
    /\ Idle
    /\ nops < MaxOps
    /\ nops' = nops + 1
    /\ gui' = <<Frame("restore_backup", "question", item)>>
    /\ UNCHANGED <<supVars, runVars, cfgVars, backup_list, fs, backups, logfile, nticks,
                   since_tick, boot, dataVars>>

\* The question is answered: with Yes restore_backup calls
\* svc.restore_backup, otherwise it returns.
restore_backup_answered ==
    /\ gui # <<>> /\ Top.h = "restore_backup" /\ Top.pc = "question"
    /\ gui' \in {Proceed("io", ""), Return}
    /\ UNCHANGED <<supVars, runVars, cfgVars, diskVars, since_tick, boot, dataVars>>

\* svc.restore_backup returns or raises, and restore_backup opens the
\* information box or, in the except branch, the critical box.
restore_backup_io ==
    /\ gui # <<>> /\ Top.h = "restore_backup" /\ Top.pc = "io"
    /\ svc_restore_backup(Top.item, FALSE)
    /\ gui' = Proceed("dialog", IF ret'.out = "Restored" THEN "" ELSE ret'.out)
    /\ UNCHANGED <<jar, timestamps, proc, child, reader, sink, ninp, runVars, cfgVars,
                   backup_list, backups, nops, nticks, since_tick, boot, dataVars>>

\* The box is closed: the log line "Restore failed: ..." after the critical
\* box; restore_backup returns.
restore_backup_closed ==
    /\ gui # <<>> /\ Top.h = "restore_backup" /\ Top.pc = "dialog"
    /\ logfile' = IF Top.err # ""
                    THEN Append(logfile, LogLine("Restore failed: ", <<Top.err>>))
                    ELSE logfile
    /\ gui' = Return
    /\ UNCHANGED <<supVars, runVars, cfgVars, backup_list, fs, backups, nops, nticks,
                   since_tick, boot, dataVars>>

\* The timer's event is dispatched: check_schedule is called.
check_schedule_called ==
    /\ InEventLoop
    /\ nticks < MaxTicks /\ nops < MaxOps
    /\ gui' = Append(gui, Frame("check_schedule", "io", <<>>))
    /\ UNCHANGED <<supVars, runVars, cfgVars, diskVars, since_tick, boot, dataVars>>

\* check_schedule has run through and returns to the event loop.
check_schedule_returns ==
    /\ gui # <<>> /\ Top.h = "check_schedule" /\ Top.pc = "io"
    /\ check_schedule_slot
    /\ gui' = Return
    /\ UNCHANGED <<since_tick, boot, dataVars>>

\* The tab on 1 January 2024 at 00:00:00 with "Daily backup" checked and
\* hour 0: the backup is due at every tick.  The world is there or not.
InitGui ==
    /\ jar = TRUE
    /\ timestamps = FALSE
    /\ proc = 0
    /\ child = [p \in Launches |-> NoChild]
    /\ reader = [p \in Launches |-> "none"]
    /\ sink = <<>>
    /\ ret = NoCall
    /\ ninp = 0
    /\ now = [year |-> 2024, month |-> 1, day |-> 1, hour |-> 0, minute |-> 0,
              second |-> 0, microsecond |-> 0]
    /\ hr = 0
    /\ nxt = NoInstant
    /\ enable_restart = FALSE
    /\ restart_hour = 0
    /\ enable_backup = TRUE
    /\ backup_hour = 0
    /\ next_runs_label = << [what |-> "backup at ", at |-> <<2024, 1, 1, 0, 0>>] >>
    /\ backup_list = <<>>
    /\ fs \in {[dirs |-> {ServerDir, backup_dir}, files |-> NoFiles], FirstWorld}
    /\ backups = NoFiles
    /\ logfile = <<>>
    /\ nops = 0
    /\ nticks = 0
    /\ InitIdle

NextGui ==
    \/ make_backup_clicked
    \/ make_backup_io
    \/ make_backup_closed
    \/ \E i \in 1..Len(backup_list) : restore_backup_clicked(backup_list[i])
    \/ restore_backup_answered
    \/ restore_backup_io
    \/ restore_backup_closed
    \/ check_schedule_called
    \/ check_schedule_returns
    \/ \E f \in WorldFiles : \E c \in Contents : world_written(f, c)
    \/ clock_second

SpecGui == InitGui /\ [][NextGui]_vars

\* ----------------------------------------------------------------- SpecBoot
\* boot.pc   "idle" before the call, "loop" in the while loop, "done" after
\*           the return
\* boot.st   the child: "none", "alive", "exited"
\* boot.term proc.terminate() was called
\* boot.pipe the lines the child wrote that readline has not returned yet,
\*           each with the second it was written in
\* boot.out  output_lines, each line with the second it was written in
\* boot.elapsed   time.time() - start_time, in whole seconds
\* boot.eula, boot.props   eula.txt and server.properties exist
\* boot.by   how the call ended: "jar", "popen", "signal", "eof", "timeout"
\* boot.ret  the pair returned

\* `time.time() - start_time > 45`
BootTimeout == 45

\* The seconds past the timeout the clock of SpecBoot runs through, and the
\* lines a child writes.
MaxOver == 2
MaxBootLines == 2

\* What the child may write.
BootLines ==
    { <<"[Server thread/INFO]: ", "Starting minecraft server", "\n">>,
      <<"[main/INFO]: ", "You need to agree to the EULA", " in order to run the server.", "\n">>,
      <<"[main/WARN]: ", "Failed to load eula.txt", "\n">> }

\* `text in line`
Contains(line, text) == \E i \in 1..Len(line) : line[i] = text

\* The first completion signal.
EulaPrompt(line) ==
    Contains(line, "You need to agree to the EULA") \/ Contains(line, "Failed to load eula.txt")

\* "".join(output_lines)
RECURSIVE Join(_)
Join(ls) == IF ls = <<>> THEN <<>> ELSE Head(ls).text \o Join(Tail(ls))

\* The call up to the loop: the jar is looked for and the child spawned.
bootstrap_server_called ==
    /\ boot.pc = "idle"
    /\ IF ~jar
         THEN boot' = [boot EXCEPT !.pc = "done", !.by = "jar",
                                   !.ret = [ok |-> FALSE, out |-> <<"server.jar not found">>]]
         ELSE \/ boot' = [boot EXCEPT !.pc = "loop", !.st = "alive"]
              \/ boot' = [boot EXCEPT !.pc = "done", !.by = "popen",
                              !.ret = [ok |-> FALSE,
                                       out |-> <<"Failed to start java: ", SpawnFailed>>]]
    /\ UNCHANGED <<supVars, runVars, cfgVars, diskVars, gui, since_tick, dataVars>>

\* One turn of the while loop.  readline() returns the next line as soon as
\* there is one, "" at end of stream, and does not return while the child
\* lives and has written nothing new.
bootstrap_server_loop ==
    /\ boot.pc = "loop"
    /\ IF boot.pipe # <<>>
         THEN LET line == Head(boot.pipe)
                  read == [boot EXCEPT !.pipe = Tail(@), !.out = Append(@, line)]
              IN boot' =
                   IF EulaPrompt(line.text) \/ (boot.eula /\ boot.props)
                     THEN [read EXCEPT !.generated = TRUE, !.term = TRUE, !.pc = "done",
                                       !.by = "signal",
                                       !.ret = [ok |-> TRUE, out |-> Join(read.out)]]
                   ELSE IF boot.elapsed > BootTimeout
                     THEN [read EXCEPT !.term = TRUE, !.pc = "done", !.by = "timeout",
                                       !.ret = [ok |-> read.generated, out |-> Join(read.out)]]
                   ELSE read
         ELSE /\ boot.st = "exited"
              /\ boot' = [boot EXCEPT !.pc = "done", !.by = "eof",
                                      !.ret = [ok |-> boot.generated, out |-> Join(boot.out)]]
    /\ UNCHANGED <<supVars, runVars, cfgVars, diskVars, gui, since_tick, dataVars>>

\* The child writes a line.
boot_child_writes(line) ==
    /\ boot.st = "alive"
    /\ Len(boot.pipe) + Len(boot.out) < MaxBootLines
    /\ boot' = [boot EXCEPT !.pipe = Append(@, [text |-> line, at |-> boot.elapsed])]
    /\ UNCHANGED <<supVars, runVars, cfgVars, diskVars, gui, since_tick, dataVars>>

\* The child creates eula.txt or server.properties.
boot_child_creates ==
    /\ boot.st = "alive"
    /\ \/ ~boot.eula /\ boot' = [boot EXCEPT !.eula = TRUE]
       \/ ~boot.props /\ boot' = [boot EXCEPT !.props = TRUE]
    /\ UNCHANGED <<supVars, runVars, cfgVars, diskVars, gui, since_tick, dataVars>>

\* The child exits: by itself, or after terminate().
boot_child_exits ==
    /\ boot.st = "alive"
    /\ boot' = [boot EXCEPT !.st = "exited"]
    /\ UNCHANGED <<supVars, runVars, cfgVars, diskVars, gui, since_tick, dataVars>>

\* Time passes while the loop runs.  Up to the timeout the loop tells no
\* two instants apart, so the clock stops at the start, at the timeout, and
\* at each second past it.
boot_time_passes ==
    /\ boot.pc = "loop"
    /\ boot.elapsed < BootTimeout + MaxOver
    /\ boot' = [boot EXCEPT !.elapsed = IF @ < BootTimeout THEN BootTimeout ELSE @ + 1]
    /\ UNCHANGED <<supVars, runVars, cfgVars, diskVars, gui, since_tick, dataVars>>

\* Before the call: server.jar is there or not, and eula.txt is there when
\* SetupTab.bootstrap_server, which calls set_eula first, makes the call.
InitBoot ==
    /\ jar \in BOOLEAN
    /\ timestamps = FALSE
    /\ proc = 0
    /\ child = [p \in Launches |-> NoChild]
    /\ reader = [p \in Launches |-> "none"]
    /\ sink = <<>>
    /\ ret = NoCall
    /\ ninp = 0
    /\ now = NoInstant
    /\ hr = 0
    /\ nxt = NoInstant
    /\ InitHostTools
    /\ gui = <<>>
    /\ since_tick = 0
    /\ boot \in {[NoBoot EXCEPT !.eula = e] : e \in BOOLEAN}
    /\ InitData

NextBoot ==
    \/ bootstrap_server_called
    \/ bootstrap_server_loop
    \/ \E line \in BootLines : boot_child_writes(line)
    \/ boot_child_creates
    \/ boot_child_exits
    \/ boot_time_passes

SpecBoot == InitBoot /\ [][NextBoot]_vars

\* ----------------------------------------------------------------- SpecData
\* The settings form and the operator list on the files of the server
\* directory: server.properties through read_properties and write_properties,
\* ops.json and whitelist.json through read_json and write_json.

\* A value no name and no uuid equals (None).
None == "None"

\* The player names typed into the name fields, after strip().
Names == {"Alex", "Steve"}

\* The uuid fields: left empty ("uuid or None" is None), or a valid uuid.
Uuids == {None, "u1"}

\* dict.get(k, default); a dict is its items in insertion order.
dict_get(d, k, default) ==
    IF \E i \in 1..Len(d) : d[i][1] = k
    THEN d[CHOOSE i \in 1..Len(d) : d[i][1] = k][2]
    ELSE default

\* d[k] = v: a key already there keeps its place.
dict_set(d, k, v) ==
    IF \E i \in 1..Len(d) : d[i][1] = k
    THEN LET i == CHOOSE j \in 1..Len(d) : d[j][1] = k
         IN  SubSeq(d, 1, i - 1) \o << <<k, v>> >> \o SubSeq(d, i + 1, Len(d))
    ELSE Append(d, <<k, v>>)

\* str.find: the first place of tok in s, 0 when there is none.
find(s, tok) ==
    IF \E i \in 1..Len(s) : s[i] = tok
    THEN CHOOSE i \in 1..Len(s) : s[i] = tok /\ \A j \in 1..(i - 1) : s[j] # tok
    ELSE 0

\* write_text: the file holds the text afterwards.
write_text(fsys, path, text) == [fsys EXCEPT ![path] = File(text)]

\* shutil.copy2(src, dst).
copy2(fsys, src, dst) == [fsys EXCEPT ![dst] = fsys[src]]

\* The members of one JSON object, "k": v separated by commas.
RECURSIVE dumps_members(_)
dumps_members(e) ==
    IF e = <<>> THEN <<>>
    ELSE <<Head(e)[1], ":", Head(e)[2]>>
         \o (IF Tail(e) = <<>> THEN <<>> ELSE <<",">> \o dumps_members(Tail(e)))

\* The objects of one JSON array, separated by commas.
RECURSIVE dumps_items(_)
dumps_items(data) ==
    IF data = <<>> THEN <<>>
    ELSE <<"{">> \o dumps_members(Head(data)) \o <<"}">>
         \o (IF Tail(data) = <<>> THEN <<>> ELSE <<",">> \o dumps_items(Tail(data)))

\* json.dumps(data, indent=2) of a list of objects, as the tokens of the text.
dumps(data) == <<"[">> \o dumps_items(data) \o <<"]">>

\* The dict of the members between "{" and "}": a repeated key keeps its
\* first place and its last value.
RECURSIVE loads_members(_, _)
loads_members(t, d) ==
    IF Len(t) < 3 THEN d
    ELSE loads_members(SubSeq(t, 5, Len(t)), dict_set(d, t[1], t[3]))

\* The objects between "[" and "]".
RECURSIVE loads_items(_)
loads_items(t) ==
    IF t = <<>> THEN <<>>
    ELSE LET close == find(t, "}")
         IN  << loads_members(SubSeq(t, 2, close - 1), <<>>) >>
             \o loads_items(SubSeq(t, close + 2, Len(t)))

\* json.loads of the text of a list of objects.
loads(text) == loads_items(SubSeq(text, 2, Len(text) - 1))

\* read_json(path, default).
read_json(fsys, path, default) ==
    IF ~fsys[path].there THEN default ELSE loads(fsys[path].text)

\* write_json with the copy taken after the file was written.
write_json_backup_last(fsys, path, data) ==
    LET written == write_text(fsys, path, dumps(data))
    IN  copy2(written, path, with_suffix(path, ".bak"))

\* write_json(path, data): the file as it is goes to the .bak beside it,
\* then the file is written.
write_json(fsys, path, data) ==
    LET backup == with_suffix(path, ".bak")
        copied == IF fsys[path].there THEN copy2(fsys, path, backup) ELSE fsys
    IN  write_text(copied, path, dumps(data))

\* Iterating a text file: its lines, each with its terminator.
RECURSIVE file_lines(_)
file_lines(text) ==
    IF text = <<>> THEN <<>>
    ELSE LET nl == find(text, "\n")
         IN  IF nl = 0 THEN <<text>>
             ELSE <<SubSeq(text, 1, nl)>> \o file_lines(SubSeq(text, nl + 1, Len(text)))

\* The loop of read_properties: blank lines and comments are skipped, a line
\* with "=" is split at the first one.
RECURSIVE read_properties_lines(_, _)
read_properties_lines(ls, d) ==
    IF ls = <<>> THEN d
    ELSE LET line == strip(Head(ls))
             eq == find(line, "=")
         IN  IF line = <<>> THEN read_properties_lines(Tail(ls), d)
             ELSE IF line[1] = "#" THEN read_properties_lines(Tail(ls), d)
             ELSE IF eq = 0 THEN read_properties_lines(Tail(ls), d)
             ELSE read_properties_lines(Tail(ls),
                      dict_set(d, SubSeq(line, 1, eq - 1), SubSeq(line, eq + 1, Len(line))))

\* read_properties(path).
read_properties(fsys, path) ==
    IF ~fsys[path].there THEN <<>>
    ELSE read_properties_lines(file_lines(fsys[path].text), <<>>)

\* The lines write_properties writes: f"{k}={v}\n" for each item.
RECURSIVE properties_text(_)
properties_text(d) ==
    IF d = <<>> THEN <<>>
    ELSE Head(d)[1] \o <<"=">> \o Head(d)[2] \o <<"\n">> \o properties_text(Tail(d))

\* write_properties(path, props).
write_properties(fsys, path, d) ==
    LET backup == with_suffix(path, ".bak")
        copied == IF fsys[path].there THEN copy2(fsys, path, backup) ELSE fsys
    IN  [copied EXCEPT ![path] = File(properties_text(d))]

\* What a helper call was, what it handed to write_json or write_properties
\* (when it called one), and what it returned.
Helper(op, path, arg, wrote, written, out) ==
    [op |-> op, path |-> path, arg |-> arg, wrote |-> wrote, written |-> written,
     out |-> out]

\* The variables no helper of this section touches.
dataFrame == <<supVars, runVars, cfgVars, backup_list, fs, backups, nticks,
               gui, since_tick, boot, plugins>>

\* The line edit of the form modelled here, and what is typed into it.
motd == <<"motd">>
LineEdits == {<<>>, <<" ", "A", " ", "B", " ">>, <<"a", "=", "b">>}

\* The combo box of the form modelled here, and its items.
pvp == <<"pvp">>
bool_combo == {<<"true">>, <<"false">>}

\* What the combo box shows: load_props selects the item found, the first
\* item when there is none, and save_props writes back what is shown.
currentText ==
    IF dict_get(props, pvp, <<>>) \in bool_combo
    THEN dict_get(props, pvp, <<>>) ELSE <<"true">>

\* SettingsTab.load_props.
load_props ==
    /\ nops < MaxOps
    /\ nops' = nops + 1
    /\ props' = read_properties(saved, props_path)
    /\ got' = Helper("read_properties", props_path, <<>>, FALSE, <<>>, props')
    /\ UNCHANGED <<dataFrame, saved, logfile>>

\* SettingsTab.save_props with text in the line edit.
save_props(text) ==
    /\ nops < MaxOps
    /\ nops' = nops + 1
    /\ props' = dict_set(dict_set(props, motd, strip(text)), pvp, currentText)
    /\ saved' = write_properties(saved, props_path, props')
    /\ logfile' = Append(logfile, LogLine("Settings saved.", <<>>))
    /\ got' = Helper("write_properties", props_path, <<>>, TRUE, props', <<>>)
    /\ UNCHANGED dataFrame

\* UsersTab.refresh_lists: both lists are read.
refresh_lists ==
    /\ nops < MaxOps
    /\ nops' = nops + 1
    /\ got' = Helper("read_json", ops_path, <<>>, FALSE, <<>>,
                     <<read_json(saved, ops_path, <<>>), read_json(saved, wl_path, <<>>)>>)
    /\ UNCHANGED <<dataFrame, saved, props, logfile>>

\* add_op appending without looking at the entries there.
op_present_never(ops, name, uuid) == FALSE

\* Whether an entry of the list has the name, or the uuid when one is given.
op_present(ops, name, uuid) ==
    \E i \in 1..Len(ops) :
        IF dict_get(ops[i], "name", None) = name THEN TRUE
        ELSE uuid # None /\ dict_get(ops[i], "uuid", None) = uuid

\* The entry add_op builds.
op_entry(name, uuid) ==
    << <<"name", name>>, <<"level", "4">>, <<"bypassesPlayerLimit", "false">> >>
    \o (IF uuid # None THEN << <<"uuid", uuid>> >> ELSE <<>>)

\* add_op(server_dir, name, uuid).
add_op(name, uuid) ==
    LET ops == read_json(saved, ops_path, <<>>)
        added == Append(ops, op_entry(name, uuid))
    IN  /\ nops < MaxOps
        /\ nops' = nops + 1
        /\ IF op_present(ops, name, uuid)
           THEN /\ got' = Helper("add_op", ops_path, <<name, uuid>>, FALSE, <<>>, <<>>)
                /\ UNCHANGED <<saved, logfile>>
           ELSE /\ saved' = write_json(saved, ops_path, added)
                /\ logfile' = Append(logfile, LogLine("OP added: ", <<name>>))
                /\ got' = Helper("add_op", ops_path, <<name, uuid>>, TRUE, added, <<>>)
        /\ UNCHANGED <<dataFrame, props>>

\* [e for e in entries if e.get("name") != name]
without_name(entries, name) ==
    SelectSeq(entries, LAMBDA e : dict_get(e, "name", None) # name)

\* remove_op(server_dir, name).
remove_op(name) ==
    LET ops == without_name(read_json(saved, ops_path, <<>>), name)
    IN  /\ nops < MaxOps
        /\ nops' = nops + 1
        /\ saved' = write_json(saved, ops_path, ops)
        /\ logfile' = Append(logfile, LogLine("OP removed: ", <<name>>))
        /\ got' = Helper("remove_op", ops_path, <<name>>, TRUE, ops, <<>>)
        /\ UNCHANGED <<dataFrame, props>>

\* Whether an entry of the whitelist has the name.
wl_present(wl, name) ==
    \E i \in 1..Len(wl) : dict_get(wl[i], "name", None) = name

\* The entry add_whitelist builds.
wl_entry(name, uuid) ==
    << <<"name", name>> >> \o (IF uuid # None THEN << <<"uuid", uuid>> >> ELSE <<>>)

\* add_whitelist(server_dir, name, uuid).
add_whitelist(name, uuid) ==
    LET wl == read_json(saved, wl_path, <<>>)
        added == Append(wl, wl_entry(name, uuid))
    IN  /\ nops < MaxOps
        /\ nops' = nops + 1
        /\ IF wl_present(wl, name)
           THEN /\ got' = Helper("add_whitelist", wl_path, <<name, uuid>>, FALSE, <<>>, <<>>)
                /\ UNCHANGED <<saved, logfile>>
           ELSE /\ saved' = write_json(saved, wl_path, added)
                /\ logfile' = Append(logfile, LogLine("Whitelisted: ", <<name>>))
                /\ got' = Helper("add_whitelist", wl_path, <<name, uuid>>, TRUE, added, <<>>)
        /\ UNCHANGED <<dataFrame, props>>

\* remove_whitelist(server_dir, name).
remove_whitelist(name) ==
    LET wl == without_name(read_json(saved, wl_path, <<>>), name)
    IN  /\ nops < MaxOps
        /\ nops' = nops + 1
        /\ saved' = write_json(saved, wl_path, wl)
        /\ logfile' = Append(logfile, LogLine("Whitelist removed: ", <<name>>))
        /\ got' = Helper("remove_whitelist", wl_path, <<name>>, TRUE, wl, <<>>)
        /\ UNCHANGED <<dataFrame, props>>

\* A server.properties the server wrote and somebody edited: a comment, a
\* blank line, spaces around a line and around "=", "=" in a value, a line
\* without "=", a key twice, no newline at the end.
EditedProperties ==
    <<"#", "Minecraft", "\n", "motd", "=", "A", "\n", "\n",
      " ", "pvp", "=", "false", " ", "\n",
      "seed", " ", "=", " ", "1", "=", "2", "\n", "junk", "\n",
      "seed", " ", "=", "x">>

\* An ops.json the server wrote: one operator, the uuid first.
ServerOps ==
    <<"[", "{", "uuid", ":", "u2", ",", "name", ":", "Alex", ",", "level", ":", "4", ",",
      "bypassesPlayerLimit", ":", "false", "}", "]">>

\* A whitelist.json the server wrote: two players.
ServerWhitelist ==
    <<"[", "{", "uuid", ":", "u2", ",", "name", ":", "Alex", "}", ",",
      "{", "uuid", ":", "u1", ",", "name", ":", "Steve", "}", "]">>

\* Everything but the data files: 1 January 2024 at 00:00:00, no server
\* running, nothing scheduled, no world, no call in progress.
InitRest ==
    /\ jar = TRUE
    /\ timestamps = FALSE
    /\ proc = 0
    /\ child = [p \in Launches |-> NoChild]
    /\ reader = [p \in Launches |-> "none"]
    /\ sink = <<>>
    /\ ret = NoCall
    /\ ninp = 0
    /\ now = [year |-> 2024, month |-> 1, day |-> 1, hour |-> 0, minute |-> 0,
              second |-> 0, microsecond |-> 0]
    /\ hr = 0
    /\ nxt = NoInstant
    /\ InitHostTools
    /\ gui = <<>>
    /\ since_tick = 0
    /\ boot = NoBoot

\* The settings form and the operator list on a server directory where
\* server.properties and ops.json are there or not.
InitDataFiles ==
    /\ InitRest
    /\ \E pt \in {Absent, File(EditedProperties)} : \E ot \in {Absent, File(ServerOps)} :
           saved = [f \in DataFiles |->
                       IF f = props_path THEN pt ELSE IF f = ops_path THEN ot ELSE Absent]
    /\ props = read_properties(saved, props_path)
    /\ plugins = [enabled |-> NoJars, disabled |-> NoJars, dirs |-> {}]
    /\ got = NoHelper

NextData ==
    \/ load_props
    \/ \E text \in LineEdits : save_props(text)
    \/ refresh_lists
    \/ \E name \in Names : \E uuid \in Uuids : add_op(name, uuid)
    \/ \E name \in Names : remove_op(name)

SpecData == InitDataFiles /\ [][NextData]_vars

\* ---------------------------------------------------------------- SpecUsers
\* The operator list and the whitelist, ops.json and whitelist.json there or
\* not.
InitUsers ==
    /\ InitRest
    /\ \E ot \in {Absent, File(ServerOps)} : \E wt \in {Absent, File(ServerWhitelist)} :
           saved = [f \in DataFiles |->
                       IF f = ops_path THEN ot ELSE IF f = wl_path THEN wt ELSE Absent]
    /\ props = <<>>
    /\ plugins = [enabled |-> NoJars, disabled |-> NoJars, dirs |-> {}]
    /\ got = NoHelper

NextUsers ==
    \/ refresh_lists
    \/ \E name \in Names : \E uuid \in Uuids : add_op(name, uuid)
    \/ \E name \in Names : remove_op(name)
    \/ \E name \in Names : \E uuid \in Uuids : add_whitelist(name, uuid)
    \/ \E name \in Names : remove_whitelist(name)

SpecUsers == InitUsers /\ [][NextUsers]_vars

\* -------------------------------------------------------------- SpecPlugins
\* The plugin helpers on the directories plugins and plugins-disabled of the
\* server directory. plugins.enabled and plugins.disabled are the jars of
\* the two directories, name to content; plugins.dirs the directories there.

\* The jar names the helpers are called with, and what a jar can hold.
PluginNames == {"a.jar", "b.jar"}
Versions == {"v1", "v2"}

\* The jars of the two directories.
Jars(p) == [enabled |-> p.enabled, disabled |-> p.disabled]

\* A directory without the file of this name.
unlink(dir, name) == [n \in (DOMAIN dir) \ {name} |-> dir[n]]

\* A directory after a file was written or moved to this name: a file of
\* that name already there is replaced.
placed(dir, name, content) == (name :> content) @@ dir

\* No plugin helper was called.
NoPluginCall ==
    [op |-> "none", arg |-> "", before |-> [enabled |-> NoJars, disabled |-> NoJars],
     last |-> [op |-> "none", arg |-> "", before |-> [enabled |-> NoJars, disabled |-> NoJars]]]

\* A call of a plugin helper: its name, its argument, the jars before it,
\* and the same of the call before.
PluginCall(op, name) ==
    [op |-> op, arg |-> name, before |-> Jars(plugins),
     last |-> [op |-> got.op, arg |-> got.arg, before |-> got.before]]

\* The variables no plugin helper touches.
pluginFrame == <<supVars, runVars, cfgVars, backup_list, fs, backups, nticks,
                 gui, since_tick, boot, saved, props>>

\* add_plugin(server_dir, jar_source): a jar from elsewhere is copied in.
add_plugin(name, content) ==
    /\ nops < MaxOps
    /\ nops' = nops + 1
    /\ plugins' = [plugins EXCEPT !.dirs = @ \cup {"plugins"},
                                  !.enabled = placed(@, name, content)]
    /\ logfile' = Append(logfile, LogLine("Plugin added: ", <<name>>))
    /\ got' = PluginCall("add_plugin", name)
    /\ UNCHANGED pluginFrame

\* remove_plugin(server_dir, plugin_name).
remove_plugin(name) ==
    /\ nops < MaxOps
    /\ nops' = nops + 1
    /\ IF name \in DOMAIN plugins.enabled
       THEN /\ plugins' = [plugins EXCEPT !.enabled = unlink(@, name)]
            /\ logfile' = Append(logfile, LogLine("Plugin removed: ", <<name>>))
       ELSE UNCHANGED <<plugins, logfile>>
    /\ got' = PluginCall("remove_plugin", name)
    /\ UNCHANGED pluginFrame

\* disable_plugin(server_dir, plugin_name).
disable_plugin(name) ==
    /\ nops < MaxOps
    /\ nops' = nops + 1
    /\ IF name \in DOMAIN plugins.enabled
       THEN /\ plugins' = [plugins EXCEPT
                              !.dirs = @ \cup {"plugins-disabled"},
                              !.disabled = placed(@, name, plugins.enabled[name]),
                              !.enabled = unlink(@, name)]
            /\ logfile' = Append(logfile, LogLine("Plugin disabled: ", <<name>>))
       ELSE /\ plugins' = [plugins EXCEPT !.dirs = @ \cup {"plugins-disabled"}]
            /\ UNCHANGED logfile
    /\ got' = PluginCall("disable_plugin", name)
    /\ UNCHANGED pluginFrame

\* enable_plugin(server_dir, plugin_name).
enable_plugin(name) ==
    /\ nops < MaxOps
    /\ nops' = nops + 1
    /\ IF name \in DOMAIN plugins.disabled
       THEN /\ plugins' = [plugins EXCEPT
                              !.dirs = @ \cup {"plugins"},
                              !.enabled = placed(@, name, plugins.disabled[name]),
                              !.disabled = unlink(@, name)]
            /\ logfile' = Append(logfile, LogLine("Plugin enabled: ", <<name>>))
       ELSE /\ plugins' = [plugins EXCEPT !.dirs = @ \cup {"plugins"}]
            /\ UNCHANGED logfile
    /\ got' = PluginCall("enable_plugin", name)
    /\ UNCHANGED pluginFrame

\* The plugins tab on a server directory without plugins, or with one.
InitPlugins ==
    /\ InitRest
    /\ saved = [f \in DataFiles |-> Absent]
    /\ props = <<>>
    /\ plugins \in {[enabled |-> NoJars, disabled |-> NoJars, dirs |-> {}],
                    [enabled |-> placed(NoJars, "a.jar", "v1"), disabled |-> NoJars,
                     dirs |-> {"plugins"}]}
    /\ got = NoPluginCall

NextPlugins ==
    \/ \E name \in PluginNames : \E content \in Versions : add_plugin(name, content)
    \/ \E name \in PluginNames : remove_plugin(name)
    \/ \E name \in PluginNames : disable_plugin(name)
    \/ \E name \in PluginNames : enable_plugin(name)

SpecPlugins == InitPlugins /\ [][NextPlugins]_vars

\* ------------------------------------------------- the claims' vocabulary
\* The children alive now.
Live == {p \in Launches : child[p].st = "alive"}

\* The launches a successful start has made so far.
Launched == {p \in Launches : child[p].st # "unborn"}

\* The lines of an input stream: the text before each "\n".
RECURSIVE StreamLines(_)
StreamLines(s) ==
    IF s = <<>> THEN <<>>
    ELSE LET n == CHOOSE i \in 1..Len(s) :
                      s[i] = "\n" /\ \A j \in 1..(i - 1) : s[j] # "\n"
         IN <<SubSeq(s, 1, n - 1)>> \o StreamLines(SubSeq(s, n + 1, Len(s)))

\* The child of launch p was sent the line "stop".
StopSent(p) == \E i \in 1..Len(StreamLines(child[p].stdin)) :
                    StreamLines(child[p].stdin)[i] = <<"stop">>

\* ProcessState Stopping: a live child that was sent "stop".
Stopping(p) == child[p].st = "alive" /\ StopSent(p)

\* What the sink was handed on behalf of launch p, in order.
EventsOf(p) == SelectSeq(sink, LAMBDA e : e.p = p)
StatesOf(p) == SelectSeq(sink, LAMBDA e : e.p = p /\ e.k = "state")
OutputsOf(p) == SelectSeq(sink, LAMBDA e : e.p = p /\ e.k = "output")

\* The text the sink is to get for a line the child wrote.
Shown(line) == IF timestamps THEN <<"[ts]", " ">> \o rstrip(line) ELSE rstrip(line)

\* ------------------------------------------------------------------- C1
\* C1: start() while the child is still running changes nothing (same
\* process, same reader thread, no event for the sink), and a supervisor
\* never has two live children.
C1_StartWhileRunningIsNoop ==
    /\ [](Cardinality(Live) <= 1)
    /\ [][(Live # {} /\ start) =>
            /\ UNCHANGED <<proc, child, reader, sink>>
            /\ ret' = [op |-> "start", out |-> "return"]]_vars

C1_Witness ==
    /\ ret = [op |-> "start", out |-> "return"]
    /\ Cardinality(Live) = 1
    /\ Cardinality(Launched) = 1

\* ------------------------------------------------------------------- C2
\* C2: with no server.jar, start() fails with ExecutableMissing and leaves
\* the supervisor as it was: no process, no reader thread, no event.
C2_MissingJarFails ==
    [][(~jar /\ Live = {} /\ start) =>
            /\ ret' = [op |-> "start", out |-> ExecutableMissing]
            /\ UNCHANGED <<proc, child, reader, sink>>]_vars

C2_Witness ==
    /\ ret = [op |-> "start", out |-> ExecutableMissing]
    /\ proc = 0
    /\ Launched = {}
    /\ sink = <<>>

\* ------------------------------------------------------------------- C3
\* C3: a command sent while no child is alive is answered with
\* NotRunningError, writes nothing and leaves no echo in the sink.
C3_NotRunningIsReported ==
    [][\A text \in InputTexts :
          (Live = {} /\ strip(text) # <<>> /\ send_cmd(text)) =>
              /\ ret'.out = "NotRunningError"
              /\ child' = child
              /\ sink' = sink]_vars

\* ------------------------------------------------------------------- C4
\* C4: when the child exits without having been sent "stop", the last state
\* event the sink gets for that launch is Crashed.
C4_OwnExitIsCrashed ==
    \A p \in Launches :
        (reader[p] = "done" /\ ~StopSent(p)) =>
            StatesOf(p)[Len(StatesOf(p))].v = <<"crashed">>

\* ------------------------------------------------------------------- C5
\* C5: once the reader of a launch has reached the end of the stream, the
\* sink holds one output event per line the child wrote, in the order
\* written, each the line without its trailing whitespace; the launch's state
\* events are "running" first and "stopped" last, once each, with every
\* output event between them.
C5_LinesInOrderThenStopped ==
    \A p \in Launches :
        reader[p] = "done" =>
            /\ Len(OutputsOf(p)) = Len(child[p].wrote)
            /\ \A i \in 1..Len(child[p].wrote) :
                   OutputsOf(p)[i].v = Shown(child[p].wrote[i])
            /\ StatesOf(p) = <<StateEvent(p, "running"), StateEvent(p, "stopped")>>
            /\ EventsOf(p)[1] = StateEvent(p, "running")
            /\ EventsOf(p)[Len(EventsOf(p))] = StateEvent(p, "stopped")

C5_Witness ==
    \E p \in Launches :
        /\ reader[p] = "done"
        /\ StopSent(p)
        /\ Len(child[p].wrote) = 3
        /\ Len(OutputsOf(p)) = 3

\* ------------------------------------------------------------------- C6
\* C6: no output event of a launch is delivered after that launch's
\* "stopped" event.
C6_NoOutputAfterStopped ==
    \A i \in 1..Len(sink) : \A j \in 1..Len(sink) :
        (i < j /\ sink[i].k = "state" /\ sink[i].v = <<"stopped">>
               /\ sink[j].k = "output") => sink[j].p # sink[i].p

C6_Witness ==
    \E p \in Launches :
        /\ Len(OutputsOf(p)) >= 2
        /\ EventsOf(p)[Len(EventsOf(p))] = StateEvent(p, "stopped")

C8_EchoIffDelivered ==
    [][\A text \in InputTexts :
          (strip(text) # <<>> /\ send_cmd(text)) =>
              /\ Live # {} =>
                     child' = [child EXCEPT ![proc].stdin = @ \o strip(text) \o <<"\n">>]
              /\ (child' # child) <=> (sink' = Append(sink, EchoEvent(strip(text))))]_vars

\* ------------------------------------------------------------------- C9
\* C9: a start() with the jar in place that does not bring up a child
\* reports SpawnFailed and changes nothing; afterwards no child is running
\* and start() can launch again.
C9_SpawnFailureLeavesNotRunning ==
    /\ [][(jar /\ Live = {} /\ start /\ Live' = {}) =>
              /\ ret' = [op |-> "start", out |-> SpawnFailed]
              /\ UNCHANGED <<proc, child, reader, sink>>]_vars
    /\ [](ret = [op |-> "start", out |-> SpawnFailed] =>
              /\ jar
              /\ Live = {}
              /\ (ninp < MaxInputs => ENABLED (start /\ Live' # {})))

C9_Witness ==
    /\ ret = [op |-> "start", out |-> SpawnFailed]
    /\ Launched = {}
    /\ sink = <<>>

\* ------------------------------------------------------------------ C10
\* Days from 1 January 2023 to the date of t.
RECURSIVE DaysBeforeYear(_)
DaysBeforeYear(y) ==
    IF y <= 2023 THEN 0
    ELSE DaysBeforeYear(y - 1) + (IF IsLeap(y - 1) THEN 366 ELSE 365)

RECURSIVE DaysBeforeMonth(_, _)
DaysBeforeMonth(y, m) ==
    IF m <= 1 THEN 0 ELSE DaysBeforeMonth(y, m - 1) + DaysInMonth(y, m - 1)

DayNumber(t) == DaysBeforeYear(t.year) + DaysBeforeMonth(t.year, t.month) + t.day

\* Seconds from 1 January 2023, 00:00:00, to t (its microseconds apart).
Seconds(t) == DayNumber(t) * 86400 + t.hour * 3600 + t.minute * 60 + t.second

\* a is strictly later than b.
Later(a, b) ==
    \/ Seconds(a) > Seconds(b)
    \/ Seconds(a) = Seconds(b) /\ a.microsecond > b.microsecond

\* Today at h:00:00.
TodayAt(t, h) == [year |-> t.year, month |-> t.month, day |-> t.day, hour |-> h,
                  minute |-> 0, second |-> 0, microsecond |-> 0]

\* C10: for every target hour and every now, get_next_run returns an instant
\* strictly after now at h:00:00: today's when that is still to come, and
\* otherwise the one exactly 24 hours after today's, also when now is in
\* minute 0 of hour h.
C10_NextRunIsNextOccurrence ==
    nxt # NoInstant =>
        /\ nxt.hour = hr /\ nxt.minute = 0 /\ nxt.second = 0 /\ nxt.microsecond = 0
        /\ Later(nxt, now)
        /\ Seconds(nxt) = IF Later(TodayAt(now, hr), now)
                            THEN Seconds(TodayAt(now, hr))
                            ELSE Seconds(TodayAt(now, hr)) + 86400
        /\ (now.hour = hr /\ now.minute = 0) =>
               Seconds(nxt) = Seconds(TodayAt(now, hr)) + 86400

C10_Witness ==
    /\ nxt # NoInstant
    /\ now = TodayAt(now, hr)
    /\ Seconds(nxt) = Seconds(now) + 86400

\* ------------------------------------------------------------------ C11
\* The date of t is a date of the calendar.
ValidDate(t) ==
    /\ t.month \in 1..12
    /\ t.day \in 1..(IF t.month = 2
                       THEN (IF t.year \in {2024} THEN 29 ELSE 28)
                       ELSE IF t.month \in {4, 6, 9, 11} THEN 30 ELSE 31)

DateOf(t) == <<t.year, t.month, t.day>>

\* The date after each of Dates.
DayAfter(d) ==
    CASE d = <<2023, 2, 28>> -> <<2023, 3, 1>>
      [] d = <<2023, 12, 31>> -> <<2024, 1, 1>>
      [] d = <<2024, 1, 1>> -> <<2024, 1, 2>>
      [] d = <<2024, 2, 28>> -> <<2024, 2, 29>>
      [] d = <<2024, 2, 29>> -> <<2024, 3, 1>>
      [] d = <<2024, 4, 30>> -> <<2024, 5, 1>>
      [] d = <<2024, 6, 15>> -> <<2024, 6, 16>>

\* C11: at 23:59 of day D with target hour 0, get_next_run returns 00:00 of
\* the calendar day after D, also across the end of a month and of a year
\* (31 December 23:59 gives 1 January of the next year); whenever the run
\* moves to tomorrow its date is the day after today's, and the day of the
\* month it returns never exceeds the length of the month.
C11_RolloverIsNextCalendarDay ==
    nxt # NoInstant =>
        /\ ValidDate(nxt)
        /\ DateOf(nxt) \in {DateOf(now), DayAfter(DateOf(now))}
        /\ (hr < now.hour \/ (hr = now.hour /\ now.minute = 59)) =>
               DateOf(nxt) = DayAfter(DateOf(now))
        /\ (now.hour = 23 /\ now.minute = 59 /\ hr = 0) =>
               /\ DateOf(nxt) = DayAfter(DateOf(now))
               /\ <<nxt.hour, nxt.minute, nxt.second, nxt.microsecond>> = <<0, 0, 0, 0>>

C11_Witness ==
    /\ DateOf(now) = <<2023, 12, 31>>
    /\ now.hour = 23 /\ now.minute = 59
    /\ hr = 0
    /\ nxt = [year |-> 2024, month |-> 1, day |-> 1, hour |-> 0, minute |-> 0,
              second |-> 0, microsecond |-> 0]

\* ------------------------------------------- the scheduler in the log file
\* The lines by which a scheduled action shows in the log.
BackupLines == {"World backup created: ", "Scheduled backup failed: "}
RestartLines == {RestartReached}

\* Lines i and j of the log are of the same scheduled action.
SameAction(i, j) ==
    \/ logfile[i].text \in BackupLines /\ logfile[j].text \in BackupLines
    \/ logfile[i].text \in RestartLines /\ logfile[j].text \in RestartLines

\* ------------------------------------------------------------------ C12
\* C12: however often check_schedule is invoked within one qualifying
\* minute, a scheduled action fires once for that minute: the log never
\* holds two firings of the same action in the same minute of the same day.
C12_OncePerMinute ==
    \A i \in 1..Len(logfile) : \A j \in 1..Len(logfile) :
        (i < j /\ SameAction(i, j)) =>
            SubSeq(logfile[i].ts, 1, 5) # SubSeq(logfile[j].ts, 1, 5)

\* ------------------------------------------------------------------ C13
\* C13: across all ticks and all changes of the check boxes and hours, the
\* scheduled backup fires at most once on a calendar day, and so does the
\* scheduled restart.
C13_OncePerDay ==
    \A i \in 1..Len(logfile) : \A j \in 1..Len(logfile) :
        (i < j /\ SameAction(i, j)) =>
            SubSeq(logfile[i].ts, 1, 3) # SubSeq(logfile[j].ts, 1, 3)

\* ------------------------------------------------------------------ C14
\* C14: a tick at which the scheduled restart fires sends "stop" to the
\* running child through the supervisor, which makes the launch Stopping,
\* reports that a restart was asked for, and launches nothing itself.
C14_RestartStopsTheServer ==
    [][(check_schedule /\ restart_due) =>
          /\ IsRunning =>
                /\ child' = [child EXCEPT ![proc].stdin = @ \o stop_text \o <<"\n">>]
                /\ Stopping(proc)'
          /\ logfile'[Len(logfile')].text = RestartReached
          /\ Launched' = Launched]_vars

\* ------------------------------------------------------------------ C15
\* C15: a tick whose scheduled backup fails for want of a world directory
\* returns normally, with the failure in the log and nothing changed on the
\* disk, and the restart of the same tick still fires when it is due; any
\* tick, whatever failed before it, can be taken and fires what is due.
C15_FailureStaysInsideTheTick ==
    /\ [][(check_schedule /\ backup_due /\ make_world_backup_raises) =>
              /\ ret' = [op |-> "check_schedule", out |-> "return"]
              /\ logfile'[Len(logfile) + 1] =
                     [ts |-> Stamp(now), text |-> "Scheduled backup failed: ",
                      arg |-> <<WorldMissing>>]
              /\ Len(logfile') = Len(logfile) + (IF restart_due THEN 2 ELSE 1)
              /\ restart_due => logfile'[Len(logfile) + 2].text = RestartReached
              /\ UNCHANGED <<fs, backups, cfgVars>>]_vars
    /\ [][check_schedule =>
              /\ restart_due => logfile'[Len(logfile')].text = RestartReached
              /\ (backup_due /\ ~make_world_backup_raises) =>
                     /\ zip_name(now) \in DOMAIN backups'
                     /\ \E i \in (Len(logfile) + 1)..Len(logfile') :
                            logfile'[i].text = "World backup created: "]_vars
    /\ []((nticks < MaxTicks /\ nops < MaxOps) => ENABLED check_schedule)

C15_Witness ==
    /\ Len(logfile) = 4
    /\ logfile[1].text = "Scheduled backup failed: "
    /\ logfile[2].text = RestartReached
    /\ logfile[2].ts = logfile[1].ts
    /\ logfile[3].text = "Scheduled backup failed: "
    /\ logfile[4].text = RestartReached
    /\ SubSeq(logfile[3].ts, 1, 5) # SubSeq(logfile[1].ts, 1, 5)
    /\ ret = [op |-> "check_schedule", out |-> "return"]

\* ------------------------------------------------ the disk in the claims
\* q lies in a world_old_<ts> directory.
IsOldPath(q) == Len(q) >= 2 /\ q[2][1] = "world_old_"

\* The files of the world in d, by their paths relative to it.
WorldRel(d) == {relative_to(q, worlds_dir) : q \in {o \in DOMAIN d.files : IsPrefix(worlds_dir, o)}}

\* A click on "Restore selected backup" with its question answered Yes.
RestoreStep == \E i \in 1..Len(backup_list) : restore_backup(backup_list[i])

\* A call of make_world_backup, from the button or from the timer.
SnapshotStep == make_backup \/ (check_schedule /\ backup_due)

\* ------------------------------------------------------------------ C16
\* C16: a restore deletes and overwrites nothing that was there: every file
\* in a world_old_* directory stays as it is, and every file of the world is
\* either left in place (when the restore fails before it touches the
\* world) or found afterwards, with its content, under the world_old_<ts>
\* directory of this restore, where it was moved before the extraction --
\* also when that directory exists already from a restore of the same
\* second, and also when the extraction fails.
C16_RestoreKeepsEveryFile ==
    [][RestoreStep =>
          /\ \A q \in DOMAIN fs.files :
                 IsOldPath(q) => q \in DOMAIN fs'.files /\ fs'.files[q] = fs.files[q]
          /\ \A p \in fs.dirs : IsOldPath(p) => p \in fs'.dirs
          /\ \A r \in WorldRel(fs) :
                 IF ret'.out \in {ArchiveMissing, DestinationExists}
                   THEN /\ worlds_dir \o r \in DOMAIN fs'.files
                        /\ fs'.files[worlds_dir \o r] = fs.files[worlds_dir \o r]
                   ELSE \E o \in {old_world(now) \o r,
                                  old_world(now) \o << <<"world">> >> \o r} :
                            /\ o \notin DOMAIN fs.files
                            /\ o \in DOMAIN fs'.files
                            /\ fs'.files[o] = fs.files[worlds_dir \o r]]_vars

C16_Witness ==
    /\ ret = [op |-> "restore_backup", out |-> ExtractFailed]
    /\ \E q \in DOMAIN fs.files : IsOldPath(q) /\ Len(q) = 4 /\ q[3] = <<"world">>
    /\ \E q \in DOMAIN fs.files : IsOldPath(q) /\ Len(q) = 3

\* ------------------------------------------------------------------ C17
\* C17: a restore from an archive that is not there fails with
\* ArchiveMissing and leaves the disk as it was: the world in place, no
\* world_old_* directory made.
C17_MissingArchiveTouchesNothing ==
    [][\A i \in 1..Len(backup_list) :
          (restore_backup(backup_list[i]) /\ backup_list[i] \notin DOMAIN backups) =>
              /\ ret' = [op |-> "restore_backup", out |-> ArchiveMissing]
              /\ UNCHANGED <<fs, backups>>]_vars

C17_Witness ==
    /\ ret = [op |-> "restore_backup", out |-> ArchiveMissing]
    /\ WorldRel(fs) # {}
    /\ \A p \in fs.dirs : ~IsOldPath(p)

\* ------------------------------------------------------------------ C18
\* C18: a snapshot lists exactly the files of the world, each under the
\* world folder's name and its path in the world, with its content; a
\* restore that succeeds puts exactly the archive's members at the world
\* location, each under its path with its content, nothing else, and keeps
\* the files the world had before under the world_old_* directory.  So a
\* snapshot followed by a restore brings back the world as it was.
C18_RoundTrip ==
    /\ [][(SnapshotStep /\ Exists(fs, worlds_dir)) =>
              LET z == backups'[zip_name(now)]
              IN /\ DOMAIN z = {<< <<"world">> >> \o r : r \in WorldRel(fs)}
                 /\ \A r \in WorldRel(fs) :
                        z[<< <<"world">> >> \o r] = fs.files[worlds_dir \o r]]_vars
    /\ [][\A i \in 1..Len(backup_list) :
              (restore_backup(backup_list[i]) /\ ret'.out = "Restored") =>
                  LET z == backups[backup_list[i]]
                  IN /\ \A e \in DOMAIN z : e[1] = <<"world">>
                     /\ WorldRel(fs') = {Tail(e) : e \in DOMAIN z}
                     /\ \A e \in DOMAIN z : fs'.files[worlds_dir \o Tail(e)] = z[e]
                     /\ \A r \in WorldRel(fs) :
                            \E o \in {old_world(now) \o r,
                                       old_world(now) \o << <<"world">> >> \o r} :
                                /\ o \in DOMAIN fs'.files
                                /\ fs'.files[o] = fs.files[worlds_dir \o r]]_vars

C18_Witness ==
    /\ ret = [op |-> "restore_backup", out |-> "Restored"]
    /\ \E n \in DOMAIN backups :
          /\ Cardinality(DOMAIN backups[n]) = 2
          /\ WorldRel(fs) = {Tail(e) : e \in DOMAIN backups[n]}
          /\ \A e \in DOMAIN backups[n] : fs.files[ServerDir \o e] = backups[n][e]
    /\ \E q \in DOMAIN fs.files :
          /\ IsOldPath(q)
          /\ Basename(q) = <<"level.dat">>
          /\ fs.files[q] # fs.files[worlds_dir \o << <<"level.dat">> >>]

\* ------------------------------------------------------------------ C19
\* C19: a snapshot taken while there is no world directory fails with
\* WorldMissing, writes no archive and leaves the archives that are there,
\* and the rest of the disk, as they were.
C19_NoWorldNoArchive ==
    [][(SnapshotStep /\ ~Exists(fs, worlds_dir)) =>
          /\ UNCHANGED <<fs, backups>>
          /\ ret'.op = "make_backup" => ret'.out = WorldMissing
          /\ Len(logfile') > Len(logfile)
          /\ logfile'[Len(logfile) + 1].arg = <<WorldMissing>>]_vars

C19_Witness ==
    /\ ret = [op |-> "make_backup", out |-> WorldMissing]
    /\ ~Exists(fs, worlds_dir)
    /\ DOMAIN backups # {}

\* ------------------------------------------------------------------ C20
\* C20: a snapshot, from the button or from the timer, leaves every archive
\* that was there in place and unchanged, and one that succeeds adds exactly
\* one archive -- also when two are taken within the same second.
C20_SnapshotNeverMutates ==
    [][SnapshotStep =>
          /\ \A n \in DOMAIN backups :
                 n \in DOMAIN backups' /\ backups'[n] = backups[n]
          /\ Exists(fs, worlds_dir) =>
                 Cardinality(DOMAIN backups') = Cardinality(DOMAIN backups) + 1]_vars

\* ------------------------------------------------------------------ C21
\* The file names are "world_YYYYMMDD_HHMMSS.zip": they compare as their
\* eight date digits do and, these being equal, as their six time digits.
DateDigits(s) == (s[1] * 100 + s[2]) * 100 + s[3]
TimeDigits(s) == (s[4] * 100 + s[5]) * 100 + s[6]
NameLess(a, b) ==
    \/ DateDigits(a[2]) < DateDigits(b[2])
    \/ DateDigits(a[2]) = DateDigits(b[2]) /\ TimeDigits(a[2]) < TimeDigits(b[2])

\* The place in the log of the line by which the archive n was last written.
LastCreated(n) ==
    CHOOSE k \in 0..Len(logfile) :
        /\ k > 0 => logfile[k].text = "World backup created: " /\ logfile[k].arg = n
        /\ \A j \in (k + 1)..Len(logfile) :
               ~(logfile[j].text = "World backup created: " /\ logfile[j].arg = n)

Draining == {p \in Launches : reader[p] = "run"}

\* C22: a supervisor has at most one reader thread at work; a start that
\* spawns a child does not begin while the thread of the child before is
\* still reading or delivering; so in the sink the events of one launch
\* all come before the events of the next.
C22_OneReaderAtATime ==
    /\ [](Cardinality(Draining) <= 1)
    /\ [][proc' # proc => Draining = {}]_vars
    /\ [](\A i \in 1..Len(sink) : \A j \in 1..Len(sink) :
              i < j /\ sink[i].p # 0 /\ sink[j].p # 0 => sink[i].p <= sink[j].p)

\* ------------------------------------------------------------------ C23
\* The commands the callers issue: what ConsoleTab.send_cmd passes on, and
\* stop's own text.
Issued == {strip(text) : text \in InputTexts} \cup {stop_text}

Settings == <<enable_restart, restart_hour, enable_backup, backup_hour>>

\* The lines a step adds to the log.
Added == SubSeq(logfile', Len(logfile) + 1, Len(logfile'))

\* C27: a step that changes a check box or an hour changes the settings and
\* the "Next:" label only: no archive, no file, no log line, nothing for the
\* server.  The actions fire in ticks only, and a tick fires by the settings
\* as they are when it runs: the backup exactly when "Daily backup" is checked
\* and the clock is in minute 0 of the backup hour now set, the restart line
\* likewise.
C27_ConfigureOnlyConfigures ==
    /\ [][Settings' # Settings => UNCHANGED <<supVars, runVars, diskVars>>]_vars
    /\ [][logfile' # logfile =>
            /\ Settings' = Settings
            /\ ret'.op = "check_schedule"
            /\ backup_due <=>
                  \E i \in 1..Len(Added) :
                      Added[i].text \in {"World backup created: ", "Scheduled backup failed: "}
            /\ restart_due <=> \E i \in 1..Len(Added) : Added[i].text = RestartReached
            /\ Len(logfile') <= Len(logfile) + 2]_vars
    /\ [][nticks' # nticks => logfile' # logfile]_vars

\* Both settings were changed from what they were at first, the boxes stayed
\* checked through minute 0 of hour 23 before any tick ran, and the tick that
\* then ran fired both actions.
C27_Witness ==
    /\ enable_backup /\ enable_restart
    /\ backup_hour = MaxHour /\ restart_hour = MaxHour
    /\ now.hour = MaxHour /\ now.minute = 0 /\ now.second = 30
    /\ Len(logfile) = 2
    /\ logfile[1].ts[4] = MaxHour /\ logfile[1].ts[6] = 30
    /\ logfile[2].text = RestartReached

C26_LiveChildIsReachable ==
    /\ Cardinality(Live) <= 1
    /\ \A p \in Live : proc = p

\* ------------------------------------------------------------------ C29
\* The restart lines the log holds for minute 0 of hour 0 of 1 January 2024.
FiredOnNewYear ==
    {i \in 1..Len(logfile) :
        logfile[i].text = RestartReached /\ SubSeq(logfile[i].ts, 1, 5) = <<2024, 1, 1, 0, 0>>}

\* C29: with the timer's timeouts 60 s or more apart and "Daily restart"
\* checked with hour 0 all the while, the restart fires exactly once for
\* 1 January 00:00: never twice, and once that minute is over it has fired.
C29_FiresEveryDay ==
    /\ Cardinality(FiredOnNewYear) <= 1
    /\ (now.year = 2024 /\ (now.hour > 0 \/ now.minute > 0)) =>
           Cardinality(FiredOnNewYear) = 1

\* ------------------------------------------------------------------ C24
\* The slots on the GUI thread's stack that are inside a services function
\* or, check_schedule, running.
Busy == {i \in 1..Len(gui) : gui[i].pc = "io"}

\* The runs of check_schedule on the stack.
Ticks == {i \in 1..Len(gui) : gui[i].h = "check_schedule"}

\* C24: check_schedule never runs twice at once, and a scheduled backup
\* never runs while a manual backup or a restore is at work on the disk: of
\* all the slots begun and not ended at most one is running, the innermost;
\* a timer event that arrives while a slot is running is not dispatched
\* before that slot has returned or waits in a message box; and it is the
\* running slot that writes an archive and that ends a services call.
C24_OneAtATime ==
    /\ [](Cardinality(Busy) <= 1 /\ Cardinality(Ticks) <= 1)
    /\ [](\A i \in Busy : i = Len(gui))
    /\ [][Len(gui') > Len(gui) => Busy = {}]_vars
    /\ [][(backups' # backups \/ ret' # ret) =>
            Busy = {Len(gui)} /\ Len(gui') <= Len(gui)]_vars

\* check_schedule runs while make_backup, its archive written, waits in
\* its message box.
C24_Witness ==
    /\ Len(gui) = 2
    /\ gui[1].h = "make_backup" /\ gui[1].pc = "dialog" /\ gui[1].err = ""
    /\ gui[2].h = "check_schedule" /\ gui[2].pc = "io"
    /\ backups # NoFiles

\* ------------------------------------------------------------------ C28
\* The step is a turn of the loop that read a line.
ReadsLine == boot.pc = "loop" /\ Len(boot'.out) = Len(boot.out) + 1

\* The line such a step read.
LineRead == boot'.out[Len(boot'.out)]

\* C28: bootstrap_server returns generated = true exactly when a completion
\* signal came before the 45 s were over: the turn of the loop that reads a
\* line returns true if that line, written within the 45 s, holds one of the
\* EULA texts or finds both files in place, and no return is true
\* otherwise.  With server.jar missing the call returns false and spawns
\* nothing.
C28_GeneratedIffSignalInTime ==
    /\ [][ReadsLine =>
            ((boot'.pc = "done" /\ boot'.ret.ok)
               <=> /\ EulaPrompt(LineRead.text) \/ (boot.eula /\ boot.props)
                   /\ LineRead.at <= BootTimeout)]_vars
    /\ [](boot.pc = "done" /\ boot.ret.ok => boot.by = "signal")
    /\ [][boot.pc = "idle" /\ boot'.pc # "idle" /\ ~jar =>
            boot'.pc = "done" /\ ~boot'.ret.ok /\ boot'.st = "none"]_vars

\* ------------------------------------------------------------------ C30
\* C30: bootstrap_server always returns in the end; when it returns upon a
\* signal or upon the timeout it has called terminate(); and the 45 s once
\* over, the loop is not held up by a child that writes nothing and does
\* not exit: its next turn can be taken, and ends the call.
C30_TimeoutEndsTheRun ==
    /\ boot.pc = "done" /\ boot.by \in {"signal", "timeout"} => boot.term
    /\ boot.pc = "loop" /\ boot.elapsed > BootTimeout => ENABLED bootstrap_server_loop

\* ------------------------------------------------------------------ C31
\* C31: "stopped" is published for a launch only once its child has exited
\* and every line the child wrote was read; never while the child lives,
\* whether or not on_output raised on a line.
C31_StoppedOnlyAfterExit ==
    \A i \in 1..Len(sink) :
        (sink[i].k = "state" /\ sink[i].v = <<"stopped">>) =>
            /\ child[sink[i].p].st = "exited"
            /\ child[sink[i].p].nread = Len(child[sink[i].p].wrote)

\* ------------------------------------------------------------------ C32
\* The state events the sink holds, of all launches, in delivery order.
AllStates == SelectSeq(sink, LAMBDA e : e.k = "state")

\* C32: every launch has one "running" event, ahead of all its other
\* events, and at most one "stopped" event, after it; and in the sink the
\* state events alternate: "running" of a launch, "stopped" of the same
\* launch, "running" of the next.
C32_RunningStoppedAlternate ==
    /\ \A p \in Launched :
           /\ EventsOf(p)[1] = StateEvent(p, "running")
           /\ StatesOf(p) \in {<<StateEvent(p, "running")>>,
                               <<StateEvent(p, "running"), StateEvent(p, "stopped")>>}
           /\ reader[p] \in {"done", "failed"} => Len(StatesOf(p)) = 2
    /\ \A i \in 1..Len(AllStates) :
           /\ i % 2 = 1 => AllStates[i].v = <<"running">>
           /\ i % 2 = 0 => AllStates[i] = StateEvent(AllStates[i - 1].p, "stopped")

\* ------------------------------------------------------------------ C33
\* What a read of the file a helper call wrote returns afterwards.
ReadBack ==
    IF got'.path = props_path THEN read_properties(saved', got'.path)
    ELSE read_json(saved', got'.path, <<>>)

\* C33: the persistence helpers load the default when the file is absent and
\* back up before they overwrite: read_json of an absent file returns the
\* default and read_properties the empty map; after write_json or
\* write_properties on a file that was there, the .bak beside it holds exactly
\* what the file held immediately before the write; and a read after the
\* write returns the data that was written.
C33_DefaultIfAbsentBackupBeforeOverwrite ==
    [][nops' = nops + 1 =>
          /\ (got'.op = "read_properties" /\ ~saved[props_path].there) => got'.out = <<>>
          /\ (got'.op = "read_json" /\ ~saved[ops_path].there) => got'.out[1] = <<>>
          /\ (got'.op = "read_json" /\ ~saved[wl_path].there) => got'.out[2] = <<>>
          /\ (got'.wrote /\ saved[got'.path].there) =>
                 saved'[with_suffix(got'.path, ".bak")] = saved[got'.path]
          /\ got'.wrote => /\ saved'[got'.path].there
                           /\ ReadBack = got'.written
          /\ \A f \in DataFiles :
                 (~got'.wrote \/ f \notin {got'.path, with_suffix(got'.path, ".bak")})
                     => saved'[f] = saved[f]]_vars

\* Both kinds of file were overwritten: each .bak is there and differs from
\* its file, the settings written last carry a stripped value and a key
\* the form does not know.
C33_Witness ==
    /\ got.op = "write_properties"
    /\ saved[with_suffix(props_path, ".bak")] = File(EditedProperties)
    /\ dict_get(got.written, motd, <<>>) = <<"A", " ", "B">>
    /\ dict_get(got.written, <<"seed", " ">>, <<>>) = <<"x">>
    /\ read_properties(saved, props_path) = got.written
    /\ saved[with_suffix(ops_path, ".bak")].there
    /\ saved[with_suffix(ops_path, ".bak")] # saved[ops_path]

\* ------------------------------------------------------------------ C34
\* The entries of ops.json and of whitelist.json, now and after the step.
Ops == read_json(saved, ops_path, <<>>)
OpsAfter == read_json(saved', ops_path, <<>>)
Wl == read_json(saved, wl_path, <<>>)
WlAfter == read_json(saved', wl_path, <<>>)

\* The name of an entry, and the uuid of an entry.
NameOf(e) == dict_get(e, "name", None)
UuidOf(e) == dict_get(e, "uuid", None)

\* No two entries of the list share a name.
NoTwoShareAName(entries) ==
    \A i, j \in 1..Len(entries) : i # j => NameOf(entries[i]) # NameOf(entries[j])

\* The entries whose name is not the one given, in their order.
Others(entries, name) == SelectSeq(entries, LAMBDA e : NameOf(e) # name)

\* C34: starting from lists without duplicate names, after any sequence of
\* add_op/remove_op and add_whitelist/remove_whitelist no two entries of a
\* file share a name; adding a name (for operators also a uuid) that is
\* already there leaves the file unchanged; remove deletes every entry with
\* that name and no other.
C34_NamesStayUnique ==
    /\ [](NoTwoShareAName(Ops) /\ NoTwoShareAName(Wl))
    /\ [][nops' = nops + 1 =>
            /\ (/\ got'.op = "add_op"
                /\ \E i \in 1..Len(Ops) :
                       IF NameOf(Ops[i]) = got'.arg[1] THEN TRUE
                       ELSE got'.arg[2] # None /\ UuidOf(Ops[i]) = got'.arg[2])
                   => saved' = saved
            /\ (/\ got'.op = "add_whitelist"
                /\ \E i \in 1..Len(Wl) : NameOf(Wl[i]) = got'.arg[1])
                   => saved' = saved
            /\ got'.op = "remove_op" =>
                   /\ OpsAfter = Others(Ops, got'.arg[1])
                   /\ saved'[wl_path] = saved[wl_path]
            /\ got'.op = "remove_whitelist" =>
                   /\ WlAfter = Others(Wl, got'.arg[1])
                   /\ saved'[ops_path] = saved[ops_path]]_vars

\* A second operator was refused for its uuid alone, after a player was
\* taken off the whitelist the server wrote.
C34_Witness ==
    /\ got.op = "add_op"
    /\ ~got.wrote
    /\ Len(Ops) = 1
    /\ \A i \in 1..Len(Ops) : NameOf(Ops[i]) # got.arg[1]
    /\ \E i \in 1..Len(Ops) : UuidOf(Ops[i]) = got.arg[2]
    /\ Len(Wl) = 1
    /\ saved[with_suffix(wl_path, ".bak")] = File(ServerWhitelist)

\* ------------------------------------------------------------------ C35
\* The step is enable_plugin of a name right after disable_plugin of the
\* same name, and the plugin was in plugins before the two.
RoundTrip ==
    /\ nops' = nops + 1
    /\ got'.op = "enable_plugin"
    /\ got'.last.op = "disable_plugin"
    /\ got'.last.arg = got'.arg
    /\ got'.arg \in DOMAIN got'.last.before.enabled

\* The step is disable_plugin or enable_plugin of a name that is not in the
\* directory it moves from.
NotThere ==
    /\ nops' = nops + 1
    /\ \/ got'.op = "disable_plugin" /\ got'.arg \notin DOMAIN plugins.enabled
       \/ got'.op = "enable_plugin" /\ got'.arg \notin DOMAIN plugins.disabled

\* C35: for a plugin present in plugins, disable_plugin followed by
\* enable_plugin of the same name restores the original state: the file is
\* back in plugins, absent from plugins-disabled, and all other plugins are
\* unchanged; disable or enable of a name that is not in the directory it
\* moves from changes no plugin file.
C35_DisableEnableRestores ==
    [][/\ RoundTrip => /\ Jars(plugins') = got'.last.before
                       /\ got'.arg \notin DOMAIN plugins'.disabled
       /\ NotThere => Jars(plugins') = Jars(plugins)]_vars
====
